---------------------------- MODULE Spec2Model ----------------------------
(***************************************************************************)
(* A model of libopenaptx (src/openaptx.c): the aptX / aptX HD sub-band    *)
(* ADPCM codec.  The context is one record, the library calls are the      *)
(* actions, and the DSP is computed bit-exactly as the C code computes it. *)
(*                                                                         *)
(* TLC's integers are 32 bits wide.  An int32_t of the code is a TLC       *)
(* integer; an int64_t is a triple <<h, m, l>> of limbs of 24 bits,        *)
(* value = h * 2^48 + m * 2^24 + l with 0 <= m, l < 2^24 and h signed.     *)
(* Arrays are sequences (index + 1).  Shifts and masks are written as the  *)
(* divisions and remainders they are on two's complement integers          *)
(* (\div rounds down, % is never negative).                                *)
(***************************************************************************)
EXTENDS Integers, Sequences, FiniteSets, TLC

(***************************************************************************)
(* 64-bit arithmetic on limbs.                                             *)
(***************************************************************************)
Pow2(k) == 2 ^ k

\* A function on 1 .. n as the tuple it is, every element evaluated.
Tuple(f) == f \o <<>>

\* The last of the values listed, each evaluated in the order written, as the
\* statements of a function body run.
InOrder(values) == values[Len(values)]

\* The value of a set of one value: in Only({e(x) : x \in {v}}) the name x
\* stands for the value v in e, as a local variable assigned once.
Only(values) == CHOOSE value \in values : TRUE

B12 == Pow2(12)

B24 == Pow2(24)

I64Norm(h, m, l) ==
    <<h + ((m + (l \div B24)) \div B24), (m + (l \div B24)) % B24, l % B24>>

I64FromInt(a) == I64Norm(0, 0, a)

\* (int64_t)a * (int64_t)b for int32_t a, b, from digits of 12 bits
I64MulRaw(a, b) ==
    Only({Only({<<(c3 \div B12) + c4,
                  (c1 \div B12) + c2 + (c3 % B12) * B12,
                  c0 + (c1 % B12) * B12>> :
                c0 \in {a0 * b0},
                c1 \in {a0 * b1 + a1 * b0},
                c2 \in {a0 * b2 + a1 * b1 + a2 * b0},
                c3 \in {a1 * b2 + a2 * b1},
                c4 \in {a2 * b2}}) :
          a0 \in {a % B12},
          a1 \in {(a \div B12) % B12},
          a2 \in {a \div B24},
          b0 \in {b % B12},
          b1 \in {(b \div B12) % B12},
          b2 \in {b \div B24}})

\* the limbs of x with the carries taken
I64Carry(x) == I64Norm(x[1], x[2], x[3])

I64Mul(a, b) == I64Carry(I64MulRaw(a, b))

\* the sum of terms[lo .. hi], limb by limb, without carrying
RECURSIVE I64SumRaw(_, _, _)
I64SumRaw(terms, lo, hi) ==
    IF lo > hi THEN <<0, 0, 0>>
    ELSE IF lo = hi THEN terms[lo]
    ELSE Only({<<x[1] + y[1], x[2] + y[2], x[3] + y[3]>> :
               x \in {I64SumRaw(terms, lo, (lo + hi) \div 2)},
               y \in {I64SumRaw(terms, (lo + hi) \div 2 + 1, hi)}})

\* the sum of at most 32 products that I64MulRaw made
I64Sum(terms) ==
    InOrder(<<terms, I64Carry(I64SumRaw(terms, 1, Len(terms)))>>)

I64Add(x, y) == I64Norm(x[1] + y[1], x[2] + y[2], x[3] + y[3])

I64Sub(x, y) == I64Norm(x[1] - y[1], x[2] - y[2], x[3] - y[3])

\* (int64_t)a << k, 0 <= k <= 32, for an int32_t a of at most 24 bits
I64ShlInt(a, k) ==
    IF k < 24 THEN I64Mul(a, Pow2(k))
    ELSE Only({<<x[1] * B24 + x[2], x[3], 0>> : x \in {I64Mul(a, Pow2(k - 24))}})

\* value >> s (arithmetic), 1 <= s <= 47
I64Shr(x, s) ==
    Only({IF t = 0 THEN y
          ELSE Only({<<y[1] \div p,
                       (y[2] \div p) + (y[1] % p) * q,
                       (y[3] \div p) + (y[2] % p) * q>> :
                     p \in {Pow2(t)}, q \in {Pow2(24 - t)}}) :
          y \in {IF s >= 24 THEN <<x[1] \div B24, x[1] % B24, x[2]>> ELSE x},
          t \in {IF s >= 24 THEN s - 24 ELSE s}})

\* (int32_t)value: the low 32 bits, as a signed number
I64ToInt32(x) ==
    Only({(IF top >= 128 THEN top - 256 ELSE top) * B24 + x[3] :
          top \in {x[2] % 256}})

I64IsNeg(x) == x[1] < 0

I64Leq(x, y) ==
    \/ x[1] < y[1]
    \/ x[1] = y[1] /\ x[2] < y[2]
    \/ x[1] = y[1] /\ x[2] = y[2] /\ x[3] <= y[3]

\* (int64_t)1 << k, 0 <= k <= 47
I64Pow2(k) == IF k < 24 THEN <<0, 0, Pow2(k)>> ELSE <<0, Pow2(k - 24), 0>>

\* (value & (((int64_t)1 << n) - 1)) == ((int64_t)1 << p), p < n <= 48
I64LowBitsArePow2(x, n, p) ==
    IF n <= 24 THEN x[3] % Pow2(n) = Pow2(p)
    ELSE IF p >= 24 THEN x[3] = 0 /\ x[2] % Pow2(n - 24) = Pow2(p - 24)
    ELSE x[2] % Pow2(n - 24) = 0 /\ x[3] = Pow2(p)

(***************************************************************************)
(* Fixed-point helpers.                                                    *)
(***************************************************************************)
DIFFSIGN(x, y) == (IF x > y THEN 1 ELSE 0) - (IF x < y THEN 1 ELSE 0)

\* The test ((uint32_t)a + (1 << p)) & ~((2 << p) - 1) is non-zero exactly
\* when a is outside -(2^p) .. 2^p - 1; (a >> 31) ^ ((1 << p) - 1) is then
\* -(2^p) for a negative a and 2^p - 1 otherwise.
clip_intp2(a, p) ==
    IF a < -Pow2(p) \/ a > Pow2(p) - 1
    THEN IF a < 0 THEN -Pow2(p) ELSE Pow2(p) - 1
    ELSE a

clip(a, amin, amax) ==
    IF a < amin THEN amin
    ELSE IF a > amax THEN amax
    ELSE a

\* the low `bits` bits of val, read as a signed number
sign_extend(val, bits) ==
    LET u == val % Pow2(bits)
    IN  IF u >= Pow2(bits - 1) THEN u - Pow2(bits) ELSE u

\* rshift32 without the correction of the midpoints: halves are rounded up
rshift32_half_up(value, shift) == (value + Pow2(shift - 1)) \div Pow2(shift)

rshift32(value, shift) ==
    Only({((value + rounding) \div Pow2(shift))
          - (IF value % Pow2(shift + 1) = rounding THEN 1 ELSE 0) :
          rounding \in {Pow2(shift - 1)}})

rshift32_clip24(value, shift) == clip_intp2(rshift32(value, shift), 23)

rshift64(value, shift) ==
    InOrder(<<value,
      Only({IF I64LowBitsArePow2(value, shift + 1, shift - 1)
            THEN I64Sub(shifted, <<0, 0, 1>>)
            ELSE shifted :
            shifted \in {I64Shr(I64Add(value, I64Pow2(shift - 1)), shift)}})>>)

rshift64_clip24(value, shift) ==
    clip_intp2(I64ToInt32(rshift64(value, shift)), 23)

(***************************************************************************)
(* The constant tables, copied from the source.                           *)
(***************************************************************************)
quantize_intervals_LF ==
    <<-9948, 9948, 29860, 49808, 69822, 89926, 110144, 130502,
      151026, 171738, 192666, 213832, 235264, 256982, 279014, 301384,
      324118, 347244, 370790, 394782, 419250, 444226, 469742, 495832,
      522536, 549890, 577936, 606720, 636290, 666700, 698006, 730270,
      763562, 797958, 833538, 870398, 908640, 948376, 989740, 1032874,
      1077948, 1125150, 1174700, 1226850, 1281900, 1340196, 1402156, 1468282,
      1539182, 1615610, 1698514, 1789098, 1888944, 2000168, 2125700, 2269750,
      2438670, 2642660, 2899462, 3243240, 3746078, 4535138, 5664098, 7102424,
      8897462>>

invert_quantize_dither_factors_LF ==
    <<9948, 9948, 9962, 9988, 10026, 10078, 10142, 10218,
      10306, 10408, 10520, 10646, 10784, 10934, 11098, 11274,
      11462, 11664, 11880, 12112, 12358, 12618, 12898, 13194,
      13510, 13844, 14202, 14582, 14988, 15422, 15884, 16380,
      16912, 17484, 18098, 18762, 19480, 20258, 21106, 22030,
      23044, 24158, 25390, 26760, 28290, 30008, 31954, 34172,
      36728, 39700, 43202, 47382, 52462, 58762, 66770, 77280,
      91642, 112348, 144452, 199326, 303512, 485546, 643414, 794914,
      1000124>>

quantize_dither_factors_LF ==
    <<0, 4, 7, 10, 13, 16, 19, 22,
      26, 28, 32, 35, 38, 41, 44, 47,
      51, 54, 58, 62, 65, 70, 74, 79,
      84, 90, 95, 102, 109, 116, 124, 133,
      143, 154, 166, 180, 195, 212, 231, 254,
      279, 308, 343, 383, 430, 487, 555, 639,
      743, 876, 1045, 1270, 1575, 2002, 2628, 3591,
      5177, 8026, 13719, 26047, 45509, 39467, 37875, 51303,
      0>>

quantize_factor_select_offset_LF ==
    <<0, -21, -19, -17, -15, -12, -10, -8,
      -6, -4, -1, 1, 3, 6, 8, 10,
      13, 15, 18, 20, 23, 26, 29, 31,
      34, 37, 40, 43, 47, 50, 53, 57,
      60, 64, 68, 72, 76, 80, 85, 89,
      94, 99, 105, 110, 116, 123, 129, 136,
      144, 152, 161, 171, 182, 194, 207, 223,
      241, 263, 291, 328, 382, 467, 522, 522,
      522>>

quantize_intervals_MLF ==
    <<-89806, 89806, 278502, 494338, 759442, 1113112, 1652322, 2720256,
      5190186>>

invert_quantize_dither_factors_MLF ==
    <<89806, 89806, 98890, 116946, 148158, 205512, 333698, 734236,
      1735696>>

quantize_dither_factors_MLF ==
    <<0, 2271, 4514, 7803, 14339, 32047, 100135, 250365,
      0>>

quantize_factor_select_offset_MLF ==
    <<0, -14, 6, 29, 58, 96, 154, 270,
      521>>

quantize_intervals_MHF ==
    <<-194080, 194080, 890562>>

invert_quantize_dither_factors_MHF ==
    <<194080, 194080, 502402>>

quantize_dither_factors_MHF ==
    <<0, 77081, 0>>

quantize_factor_select_offset_MHF ==
    <<0, -33, 136>>

quantize_intervals_HF ==
    <<-163006, 163006, 542708, 1120554, 2669238>>

invert_quantize_dither_factors_HF ==
    <<163006, 163006, 216698, 361148, 1187538>>

quantize_dither_factors_HF ==
    <<0, 13423, 36113, 206598, 0>>

quantize_factor_select_offset_HF ==
    <<0, -8, 33, 95, 262>>

hd_quantize_intervals_LF ==
    <<-2436, 2436, 7308, 12180, 17054, 21930, 26806, 31686,
      36566, 41450, 46338, 51230, 56124, 61024, 65928, 70836,
      75750, 80670, 85598, 90530, 95470, 100418, 105372, 110336,
      115308, 120288, 125278, 130276, 135286, 140304, 145334, 150374,
      155426, 160490, 165566, 170654, 175756, 180870, 185998, 191138,
      196294, 201466, 206650, 211850, 217068, 222300, 227548, 232814,
      238096, 243396, 248714, 254050, 259406, 264778, 270172, 275584,
      281018, 286470, 291944, 297440, 302956, 308496, 314056, 319640,
      325248, 330878, 336532, 342212, 347916, 353644, 359398, 365178,
      370986, 376820, 382680, 388568, 394486, 400430, 406404, 412408,
      418442, 424506, 430600, 436726, 442884, 449074, 455298, 461554,
      467844, 474168, 480528, 486922, 493354, 499820, 506324, 512866,
      519446, 526064, 532722, 539420, 546160, 552940, 559760, 566624,
      573532, 580482, 587478, 594520, 601606, 608740, 615920, 623148,
      630426, 637754, 645132, 652560, 660042, 667576, 675164, 682808,
      690506, 698262, 706074, 713946, 721876, 729868, 737920, 746036,
      754216, 762460, 770770, 779148, 787594, 796108, 804694, 813354,
      822086, 830892, 839774, 848736, 857776, 866896, 876100, 885386,
      894758, 904218, 913766, 923406, 933138, 942964, 952886, 962908,
      973030, 983254, 993582, 1004020, 1014566, 1025224, 1035996, 1046886,
      1057894, 1069026, 1080284, 1091670, 1103186, 1114838, 1126628, 1138558,
      1150634, 1162858, 1175236, 1187768, 1200462, 1213320, 1226346, 1239548,
      1252928, 1266490, 1280242, 1294188, 1308334, 1322688, 1337252, 1352034,
      1367044, 1382284, 1397766, 1413494, 1429478, 1445728, 1462252, 1479058,
      1496158, 1513562, 1531280, 1549326, 1567710, 1586446, 1605550, 1625034,
      1644914, 1665208, 1685932, 1707108, 1728754, 1750890, 1773542, 1796732,
      1820488, 1844840, 1869816, 1895452, 1921780, 1948842, 1976680, 2005338,
      2034868, 2065322, 2096766, 2129260, 2162880, 2197708, 2233832, 2271352,
      2310384, 2351050, 2393498, 2437886, 2484404, 2533262, 2584710, 2639036,
      2696578, 2757738, 2822998, 2892940, 2968278, 3049896, 3138912, 3236760,
      3345312, 3467068, 3605434, 3765154, 3952904, 4177962, 4452178, 4787134,
      5187290, 5647128, 6159120, 6720518, 7332904, 8000032, 8726664, 9518152,
      10380372>>

hd_invert_quantize_dither_factors_LF ==
    <<2436, 2436, 2436, 2436, 2438, 2438, 2438, 2440,
      2442, 2442, 2444, 2446, 2448, 2450, 2454, 2456,
      2458, 2462, 2464, 2468, 2472, 2476, 2480, 2484,
      2488, 2492, 2498, 2502, 2506, 2512, 2518, 2524,
      2528, 2534, 2540, 2548, 2554, 2560, 2568, 2574,
      2582, 2588, 2596, 2604, 2612, 2620, 2628, 2636,
      2646, 2654, 2664, 2672, 2682, 2692, 2702, 2712,
      2722, 2732, 2742, 2752, 2764, 2774, 2786, 2798,
      2810, 2822, 2834, 2846, 2858, 2870, 2884, 2896,
      2910, 2924, 2938, 2952, 2966, 2980, 2994, 3010,
      3024, 3040, 3056, 3070, 3086, 3104, 3120, 3136,
      3154, 3170, 3188, 3206, 3224, 3242, 3262, 3280,
      3300, 3320, 3338, 3360, 3380, 3400, 3422, 3442,
      3464, 3486, 3508, 3532, 3554, 3578, 3602, 3626,
      3652, 3676, 3702, 3728, 3754, 3780, 3808, 3836,
      3864, 3892, 3920, 3950, 3980, 4010, 4042, 4074,
      4106, 4138, 4172, 4206, 4240, 4276, 4312, 4348,
      4384, 4422, 4460, 4500, 4540, 4580, 4622, 4664,
      4708, 4752, 4796, 4842, 4890, 4938, 4986, 5036,
      5086, 5138, 5192, 5246, 5300, 5358, 5416, 5474,
      5534, 5596, 5660, 5726, 5792, 5860, 5930, 6002,
      6074, 6150, 6226, 6306, 6388, 6470, 6556, 6644,
      6736, 6828, 6924, 7022, 7124, 7228, 7336, 7448,
      7562, 7680, 7802, 7928, 8058, 8192, 8332, 8476,
      8624, 8780, 8940, 9106, 9278, 9458, 9644, 9840,
      10042, 10252, 10472, 10702, 10942, 11194, 11458, 11734,
      12024, 12328, 12648, 12986, 13342, 13720, 14118, 14540,
      14990, 15466, 15976, 16520, 17102, 17726, 18398, 19124,
      19908, 20760, 21688, 22702, 23816, 25044, 26404, 27922,
      29622, 31540, 33720, 36222, 39116, 42502, 46514, 51334,
      57218, 64536, 73830, 85890, 101860, 123198, 151020, 183936,
      216220, 243618, 268374, 293022, 319362, 347768, 378864, 412626,
      449596>>

hd_quantize_dither_factors_LF ==
    <<0, 0, 0, 1, 0, 0, 1, 1,
      0, 1, 1, 1, 1, 1, 1, 1,
      1, 1, 1, 1, 1, 1, 1, 1,
      1, 2, 1, 1, 2, 2, 2, 1,
      2, 2, 2, 2, 2, 2, 2, 2,
      2, 2, 2, 2, 2, 2, 2, 3,
      2, 3, 2, 3, 3, 3, 3, 3,
      3, 3, 3, 3, 3, 3, 3, 3,
      3, 3, 3, 3, 3, 4, 3, 4,
      4, 4, 4, 4, 4, 4, 4, 4,
      4, 4, 4, 4, 5, 4, 4, 5,
      4, 5, 5, 5, 5, 5, 5, 5,
      5, 5, 6, 5, 5, 6, 5, 6,
      6, 6, 6, 6, 6, 6, 6, 7,
      6, 7, 7, 7, 7, 7, 7, 7,
      7, 7, 8, 8, 8, 8, 8, 8,
      8, 9, 9, 9, 9, 9, 9, 9,
      10, 10, 10, 10, 10, 11, 11, 11,
      11, 11, 12, 12, 12, 12, 13, 13,
      13, 14, 14, 14, 15, 15, 15, 15,
      16, 16, 17, 17, 17, 18, 18, 18,
      19, 19, 20, 21, 21, 22, 22, 23,
      23, 24, 25, 26, 26, 27, 28, 29,
      30, 31, 32, 33, 34, 35, 36, 37,
      39, 40, 42, 43, 45, 47, 49, 51,
      53, 55, 58, 60, 63, 66, 69, 73,
      76, 80, 85, 89, 95, 100, 106, 113,
      119, 128, 136, 146, 156, 168, 182, 196,
      213, 232, 254, 279, 307, 340, 380, 425,
      480, 545, 626, 724, 847, 1003, 1205, 1471,
      1830, 2324, 3015, 3993, 5335, 6956, 8229, 8071,
      6850, 6189, 6162, 6585, 7102, 7774, 8441, 9243>>

hd_quantize_factor_select_offset_LF ==
    <<0, -22, -21, -21, -20, -20, -19, -19,
      -18, -18, -17, -17, -16, -16, -15, -14,
      -14, -13, -13, -12, -12, -11, -11, -10,
      -10, -9, -9, -8, -7, -7, -6, -6,
      -5, -5, -4, -4, -3, -3, -2, -1,
      -1, 0, 0, 1, 1, 2, 2, 3,
      4, 4, 5, 5, 6, 6, 7, 8,
      8, 9, 9, 10, 11, 11, 12, 12,
      13, 14, 14, 15, 15, 16, 17, 17,
      18, 19, 19, 20, 20, 21, 22, 22,
      23, 24, 24, 25, 26, 26, 27, 28,
      28, 29, 30, 30, 31, 32, 33, 33,
      34, 35, 35, 36, 37, 38, 38, 39,
      40, 41, 41, 42, 43, 44, 44, 45,
      46, 47, 48, 48, 49, 50, 51, 52,
      52, 53, 54, 55, 56, 57, 58, 58,
      59, 60, 61, 62, 63, 64, 65, 66,
      67, 68, 69, 69, 70, 71, 72, 73,
      74, 75, 77, 78, 79, 80, 81, 82,
      83, 84, 85, 86, 87, 89, 90, 91,
      92, 93, 94, 96, 97, 98, 99, 101,
      102, 103, 105, 106, 107, 109, 110, 112,
      113, 115, 116, 118, 119, 121, 122, 124,
      125, 127, 129, 130, 132, 134, 136, 137,
      139, 141, 143, 145, 147, 149, 151, 153,
      155, 158, 160, 162, 164, 167, 169, 172,
      174, 177, 180, 182, 185, 188, 191, 194,
      197, 201, 204, 208, 211, 215, 219, 223,
      227, 232, 236, 241, 246, 251, 257, 263,
      269, 275, 283, 290, 298, 307, 317, 327,
      339, 352, 367, 384, 404, 429, 458, 494,
      522, 522, 522, 522, 522, 522, 522, 522,
      522>>

hd_quantize_intervals_MLF ==
    <<-21236, 21236, 63830, 106798, 150386, 194832, 240376, 287258,
      335726, 386034, 438460, 493308, 550924, 611696, 676082, 744626,
      817986, 896968, 982580, 1076118, 1179278, 1294344, 1424504, 1574386,
      1751090, 1966260, 2240868, 2617662, 3196432, 4176450, 5658260, 7671068,
      10380372>>

hd_invert_quantize_dither_factors_MLF ==
    <<21236, 21236, 21360, 21608, 21978, 22468, 23076, 23806,
      24660, 25648, 26778, 28070, 29544, 31228, 33158, 35386,
      37974, 41008, 44606, 48934, 54226, 60840, 69320, 80564,
      96140, 119032, 155576, 221218, 357552, 622468, 859344, 1153464,
      1555840>>

hd_quantize_dither_factors_MLF ==
    <<0, 31, 62, 93, 123, 152, 183, 214,
      247, 283, 323, 369, 421, 483, 557, 647,
      759, 900, 1082, 1323, 1654, 2120, 2811, 3894,
      5723, 9136, 16411, 34084, 66229, 59219, 73530, 100594>>

hd_quantize_factor_select_offset_MLF ==
    <<0, -21, -16, -12, -7, -2, 3, 8,
      13, 19, 24, 30, 36, 43, 50, 57,
      65, 74, 83, 93, 104, 117, 131, 147,
      166, 189, 219, 259, 322, 427, 521, 521,
      521>>

hd_quantize_intervals_MHF ==
    <<-95044, 95044, 295844, 528780, 821332, 1226438, 1890540, 3344850,
      6450664>>

hd_invert_quantize_dither_factors_MHF ==
    <<95044, 95044, 105754, 127180, 165372, 39736, 424366, 1029946,
      2075866>>

hd_quantize_dither_factors_MHF ==
    <<0, 2678, 5357, 9548, -31409, 96158, 151395, 261480>>

hd_quantize_factor_select_offset_MHF ==
    <<0, -17, 5, 30, 62, 105, 177, 334,
      518>>

hd_quantize_intervals_HF ==
    <<-45754, 45754, 138496, 234896, 337336, 448310, 570738, 708380,
      866534, 1053262, 1281958, 1577438, 1993050, 2665984, 3900982, 5902844,
      8897462>>

hd_invert_quantize_dither_factors_HF ==
    <<45754, 45754, 46988, 49412, 53026, 57950, 64478, 73164,
      84988, 101740, 126958, 168522, 247092, 425842, 809154, 1192708,
      1801910>>

hd_quantize_dither_factors_HF ==
    <<0, 309, 606, 904, 1231, 1632, 2172, 2956,
      4188, 6305, 10391, 19643, 44688, 95828, 95889, 152301>>

hd_quantize_factor_select_offset_HF ==
    <<0, -18, -8, 2, 13, 25, 38, 53,
      70, 90, 115, 147, 192, 264, 398, 521,
      521>>

quantization_factors ==
    <<2048, 2093, 2139, 2186, 2233, 2282, 2332, 2383,
      2435, 2489, 2543, 2599, 2656, 2714, 2774, 2834,
      2896, 2960, 3025, 3091, 3158, 3228, 3298, 3371,
      3444, 3520, 3597, 3676, 3756, 3838, 3922, 4008>>

aptx_qmf_outer_coeffs ==
    <<<<730, -413, -9611, 43626, -121026, 269973, -585547, 2801966,
        697128, -160481, 27611, 8478, -10043, 3511, 688, -897>>,
      <<-897, 688, 3511, -10043, 8478, 27611, -160481, 697128,
        2801966, -585547, 269973, -121026, 43626, -9611, -413, 730>>>>

aptx_qmf_inner_coeffs ==
    <<<<1033, -584, -13592, 61697, -171156, 381799, -828088, 3962579,
        985888, -226954, 39048, 11990, -14203, 4966, 973, -1268>>,
      <<-1268, 973, 4966, -14203, 11990, 39048, -226954, 985888,
        3962579, -828088, 381799, -171156, 61697, -13592, -584, 1033>>>>

quantization_factors_at(idx) == quantization_factors[idx + 1]

\* struct aptx_tables: the four arrays, tables_size, factor_max, prediction_order
all_tables ==
    <<<<[quantize_intervals |-> quantize_intervals_LF,
         invert_quantize_dither_factors |-> invert_quantize_dither_factors_LF,
         quantize_dither_factors |-> quantize_dither_factors_LF,
         quantize_factor_select_offset |-> quantize_factor_select_offset_LF,
         tables_size |-> Len(quantize_intervals_LF),
         factor_max |-> 4607,
         prediction_order |-> 24],
        [quantize_intervals |-> quantize_intervals_MLF,
         invert_quantize_dither_factors |-> invert_quantize_dither_factors_MLF,
         quantize_dither_factors |-> quantize_dither_factors_MLF,
         quantize_factor_select_offset |-> quantize_factor_select_offset_MLF,
         tables_size |-> Len(quantize_intervals_MLF),
         factor_max |-> 5375,
         prediction_order |-> 12],
        [quantize_intervals |-> quantize_intervals_MHF,
         invert_quantize_dither_factors |-> invert_quantize_dither_factors_MHF,
         quantize_dither_factors |-> quantize_dither_factors_MHF,
         quantize_factor_select_offset |-> quantize_factor_select_offset_MHF,
         tables_size |-> Len(quantize_intervals_MHF),
         factor_max |-> 5887,
         prediction_order |-> 6],
        [quantize_intervals |-> quantize_intervals_HF,
         invert_quantize_dither_factors |-> invert_quantize_dither_factors_HF,
         quantize_dither_factors |-> quantize_dither_factors_HF,
         quantize_factor_select_offset |-> quantize_factor_select_offset_HF,
         tables_size |-> Len(quantize_intervals_HF),
         factor_max |-> 5631,
         prediction_order |-> 12]>>,
      <<[quantize_intervals |-> hd_quantize_intervals_LF,
         invert_quantize_dither_factors |-> hd_invert_quantize_dither_factors_LF,
         quantize_dither_factors |-> hd_quantize_dither_factors_LF,
         quantize_factor_select_offset |-> hd_quantize_factor_select_offset_LF,
         tables_size |-> Len(hd_quantize_intervals_LF),
         factor_max |-> 4607,
         prediction_order |-> 24],
        [quantize_intervals |-> hd_quantize_intervals_MLF,
         invert_quantize_dither_factors |-> hd_invert_quantize_dither_factors_MLF,
         quantize_dither_factors |-> hd_quantize_dither_factors_MLF,
         quantize_factor_select_offset |-> hd_quantize_factor_select_offset_MLF,
         tables_size |-> Len(hd_quantize_intervals_MLF),
         factor_max |-> 5375,
         prediction_order |-> 12],
        [quantize_intervals |-> hd_quantize_intervals_MHF,
         invert_quantize_dither_factors |-> hd_invert_quantize_dither_factors_MHF,
         quantize_dither_factors |-> hd_quantize_dither_factors_MHF,
         quantize_factor_select_offset |-> hd_quantize_factor_select_offset_MHF,
         tables_size |-> Len(hd_quantize_intervals_MHF),
         factor_max |-> 5887,
         prediction_order |-> 6],
        [quantize_intervals |-> hd_quantize_intervals_HF,
         invert_quantize_dither_factors |-> hd_invert_quantize_dither_factors_HF,
         quantize_dither_factors |-> hd_quantize_dither_factors_HF,
         quantize_factor_select_offset |-> hd_quantize_factor_select_offset_HF,
         tables_size |-> Len(hd_quantize_intervals_HF),
         factor_max |-> 5631,
         prediction_order |-> 12]>>>>

\* &all_tables[hd][subband], subband in 0 .. 3
tables_of(hd, subband) == all_tables[hd + 1][subband + 1]

NB_CHANNELS == 2

NB_SUBBANDS == 4

NB_FILTERS == 2

FILTER_TAPS == 16

LATENCY_SAMPLES == 90

LEFT == 1

RIGHT == 2

(***************************************************************************)
(* Dither generation.                                                      *)
(***************************************************************************)
\* (int32_t)((uint32_t)v << k), 0 <= k <= 30
Shl32(v, k) ==
    Only({IF low >= Pow2(31 - k)
          THEN ((low - Pow2(31 - k)) * Pow2(k) - Pow2(30)) - Pow2(30)
          ELSE low * Pow2(k) :
          low \in {v % Pow2(32 - k)}})

aptx_update_codeword_history(channel) ==
    LET cw == (channel.quantize[1].quantized_sample % 4)
              + ((channel.quantize[2].quantized_sample \div 2) % 2) * 4
              + (channel.quantize[3].quantized_sample % 2) * 8
    IN  [channel EXCEPT
           !.codeword_history = cw * 256 + Shl32(channel.codeword_history, 4)]

\* m is (int64_t)5184443 * (codeword_history >> 7) and d the 32 bits of
\* (m << 2) + (m >> 22)
aptx_generate_dither(channel0) ==
    Only({
      Only({
        Only({[channel EXCEPT
                 !.dither = <<Shl32(d, 23), Shl32(d, 18), Shl32(d, 13), Shl32(d, 8)>>,
                 !.dither_parity = (d \div Pow2(25)) % 2] :
              d \in {I64ToInt32(I64Add(I64Norm(m[1] * 4, m[2] * 4, m[3] * 4),
                                       I64Shr(m, 22)))}}) :
        m \in {I64Mul(5184443, channel.codeword_history \div 128)}}) :
      channel \in {aptx_update_codeword_history(channel0)}})

(***************************************************************************)
(* The QMF filter bank.                                                    *)
(***************************************************************************)
aptx_qmf_filter_signal_push(signal, sample) ==
    [buffer |-> [signal.buffer EXCEPT ![signal.pos + 1] = sample,
                                      ![signal.pos + FILTER_TAPS + 1] = sample],
     pos |-> (signal.pos + 1) % FILTER_TAPS]

\* e += (int64_t)sig[i] * (int64_t)coeffs[i] for i < FILTER_TAPS
aptx_qmf_convolution(signal, coeffs, shift) ==
    rshift64_clip24(
        I64Sum(Tuple([i \in 1 .. FILTER_TAPS |->
                        I64MulRaw(signal.buffer[signal.pos + i], coeffs[i])])),
        shift)

\* signal: the two filter signals; samples: two samples.  The result holds
\* the signals and the two outputs.
aptx_qmf_polyphase_analysis(signal, coeffs, shift, samples) ==
    Only({
      Only({[signal |-> <<s1, s2>>,
             low |-> clip_intp2(sub0 + sub1, 23),
             high |-> clip_intp2(sub0 - sub1, 23)] :
            sub0 \in {aptx_qmf_convolution(s1, coeffs[1], shift)},
            sub1 \in {aptx_qmf_convolution(s2, coeffs[2], shift)}}) :
      s1 \in {aptx_qmf_filter_signal_push(signal[1], samples[2])},
      s2 \in {aptx_qmf_filter_signal_push(signal[2], samples[1])}})

\* o0, o1: the two passes of the outer loop; i0, i1: those of the inner
\* loop; intermediate_samples = { o0.low, o1.low, o0.high, o1.high }
aptx_qmf_tree_analysis(qmf, samples) ==
    Only({
      Only({
        Only({[qmf |-> [outer_filter_signal |-> o1.signal,
                        inner_filter_signal |-> <<i0.signal, i1.signal>>],
               subband_samples |-> <<i0.low, i0.high, i1.low, i1.high>>] :
              i0 \in {aptx_qmf_polyphase_analysis(qmf.inner_filter_signal[1],
                          aptx_qmf_inner_coeffs, 23, <<o0.low, o1.low>>)},
              i1 \in {aptx_qmf_polyphase_analysis(qmf.inner_filter_signal[2],
                          aptx_qmf_inner_coeffs, 23, <<o0.high, o1.high>>)}}) :
        o1 \in {aptx_qmf_polyphase_analysis(o0.signal,
                    aptx_qmf_outer_coeffs, 23, <<samples[3], samples[4]>>)}}) :
      o0 \in {aptx_qmf_polyphase_analysis(qmf.outer_filter_signal,
                  aptx_qmf_outer_coeffs, 23, <<samples[1], samples[2]>>)}})

aptx_qmf_polyphase_synthesis(signal, coeffs, shift, low, high) ==
    Only({[signal |-> <<s1, s2>>,
           samples |-> <<aptx_qmf_convolution(s1, coeffs[1], shift),
                         aptx_qmf_convolution(s2, coeffs[2], shift)>>] :
          s1 \in {aptx_qmf_filter_signal_push(signal[1], low - high)},
          s2 \in {aptx_qmf_filter_signal_push(signal[2], low + high)}})

\* i0, i1: the two passes of the inner loop; o0, o1: those of the outer
\* loop; intermediate_samples = i0.samples \o i1.samples
aptx_qmf_tree_synthesis(qmf, subband_samples) ==
    Only({
      Only({
        Only({[qmf |-> [outer_filter_signal |-> o1.signal,
                        inner_filter_signal |-> <<i0.signal, i1.signal>>],
               samples |-> o0.samples \o o1.samples] :
              o1 \in {aptx_qmf_polyphase_synthesis(o0.signal,
                          aptx_qmf_outer_coeffs, 21, i0.samples[2], i1.samples[2])}}) :
        o0 \in {aptx_qmf_polyphase_synthesis(qmf.outer_filter_signal,
                    aptx_qmf_outer_coeffs, 21, i0.samples[1], i1.samples[1])}}) :
      i0 \in {aptx_qmf_polyphase_synthesis(qmf.inner_filter_signal[1],
                  aptx_qmf_inner_coeffs, 22,
                  subband_samples[1], subband_samples[2])},
      i1 \in {aptx_qmf_polyphase_synthesis(qmf.inner_filter_signal[2],
                  aptx_qmf_inner_coeffs, 22,
                  subband_samples[3], subband_samples[4])}})


(***************************************************************************)
(* Quantizer.                                                              *)
(***************************************************************************)
\* a / b of C for b > 0: the quotient rounded toward zero
CDiv(a, b) == IF a >= 0 THEN a \div b ELSE -((-a) \div b)

RECURSIVE bin_search_loop(_, _, _, _, _)
bin_search_loop(idx, i, value, factor, intervals) ==
    IF i <= 0 THEN idx
    ELSE IF I64Leq(I64Mul(factor, intervals[idx + i + 1]), I64ShlInt(value, 24))
    THEN bin_search_loop(idx + i, i \div 2, value, factor, intervals)
    ELSE bin_search_loop(idx, i \div 2, value, factor, intervals)

\* aptx_bin_search that stays at the first interval
aptx_bin_search_first(value, factor, intervals, nb_intervals) == 0

aptx_bin_search(value, factor, intervals, nb_intervals) ==
    bin_search_loop(0, nb_intervals \div 2, value, factor, intervals)

\* parity_change that is not moved by one: both values are the same
quantize_select_same(quantized_sample, negative_error, negative_difference) ==
    [quantized_sample |->
         IF negative_difference
         THEN -(IF negative_error THEN quantized_sample - 1 ELSE quantized_sample) - 1
         ELSE (IF negative_error THEN quantized_sample - 1 ELSE quantized_sample),
     quantized_sample_parity_change |->
         IF negative_difference
         THEN -(IF negative_error THEN quantized_sample - 1 ELSE quantized_sample) - 1
         ELSE (IF negative_error THEN quantized_sample - 1 ELSE quantized_sample)]

\* parity_change = quantized_sample; the one or the other is decremented as
\* error < 0 or not; both ^ inv for inv = -(sample_difference < 0)
quantize_select(quantized_sample, negative_error, negative_difference) ==
    [quantized_sample |->
         IF negative_difference
         THEN -(IF negative_error THEN quantized_sample - 1 ELSE quantized_sample) - 1
         ELSE (IF negative_error THEN quantized_sample - 1 ELSE quantized_sample),
     quantized_sample_parity_change |->
         IF negative_difference
         THEN -(IF negative_error THEN quantized_sample ELSE quantized_sample - 1) - 1
         ELSE (IF negative_error THEN quantized_sample ELSE quantized_sample - 1)]

\* The result is the struct aptx_quantize that the function fills.
aptx_quantize_difference(sample_difference, dither, quantization_factor, tables) ==
    Only({
      Only({
        Only({
          Only({
            Only({
              Only({
                Only({[quantized_sample |-> selected.quantized_sample,
                       quantized_sample_parity_change |->
                           selected.quantized_sample_parity_change,
                       error |-> IF quantize_error < 0 THEN -quantize_error
                                 ELSE quantize_error] :
                      quantize_error \in {I64ToInt32(rshift64(error, 23))},
                      selected \in {quantize_select(quantized_sample, I64IsNeg(error),
                                                    sample_difference < 0)}}) :
                error \in {I64Sub(I64ShlInt(sample_difference_abs, 20),
                                  I64Mul(dithered_sample, quantization_factor))}}) :
              dithered_sample \in
                  {rshift64_clip24(
                       I64Add(I64Mul(dither,
                                     (tables.quantize_intervals[quantized_sample + 2]
                                      - tables.quantize_intervals[quantized_sample + 1])
                                     * (IF sample_difference < 0 THEN -1 ELSE 1)),
                              I64ShlInt(clip_intp2(
                                  CDiv(tables.quantize_intervals[quantized_sample + 2]
                                       + tables.quantize_intervals[quantized_sample + 1], 2)
                                  + d, 23), 32)),
                       32)}}) :
            d \in {I64ToInt32(rshift64(
                       I64Mul(d0, tables.quantize_dither_factors[quantized_sample + 1]),
                       23))}}) :
          d0 \in {rshift32_clip24(I64ToInt32(I64Shr(I64Mul(dither, dither), 32)), 7)
                  - Pow2(23)}}) :
        quantized_sample \in
            {aptx_bin_search(sample_difference_abs \div 16, quantization_factor,
                             tables.quantize_intervals, tables.tables_size)}}) :
      sample_difference_abs \in
          {clip(IF sample_difference < 0 THEN -sample_difference
                ELSE sample_difference, 0, Pow2(23) - 1)}})

aptx_encode_channel(channel0, samples, hd) ==
    Only({
      Only({[channel EXCEPT !.quantize =
               Tuple([subband \in 1 .. NB_SUBBANDS |->
                  aptx_quantize_difference(
                      clip_intp2(an.subband_samples[subband]
                                 - channel.prediction[subband].predicted_sample, 23),
                      channel.dither[subband],
                      channel.invert_quantize[subband].quantization_factor,
                      tables_of(hd, subband - 1))])] :
            channel \in {aptx_generate_dither([channel0 EXCEPT !.qmf = an.qmf])}}) :
      an \in {aptx_qmf_tree_analysis(channel0.qmf, samples)}})

aptx_decode_channel(channel) ==
    Only({[channel |-> [channel EXCEPT !.qmf = syn.qmf], samples |-> syn.samples] :
          syn \in {aptx_qmf_tree_synthesis(channel.qmf,
                       Tuple([subband \in 1 .. NB_SUBBANDS |->
                                channel.prediction[subband].previous_reconstructed_sample]))}})

(***************************************************************************)
(* Inverse quantizer and predictor.                                        *)
(***************************************************************************)
\* the index without the + 1: the entries 0 .. tables_size - 2
invert_quantization_index_from_zero(quantized_sample) ==
    IF quantized_sample < 0 THEN -quantized_sample - 1 ELSE quantized_sample

\* idx = (quantized_sample ^ -(quantized_sample < 0)) + 1, an index of C
invert_quantization_index(quantized_sample) ==
    (IF quantized_sample < 0 THEN -quantized_sample - 1 ELSE quantized_sample) + 1

\* idx = (factor_select & 0xFF) >> 3, an index of C
quantization_factor_index(factor_select) == (factor_select % 256) \div 8

\* shift = (tables->factor_max - factor_select) >> 8
quantization_factor_shift(factor_select, tables) ==
    (tables.factor_max - factor_select) \div 256

\* (quantization_factors[idx] << 11) >> shift
quantization_factor_update(factor_select, tables) ==
    (quantization_factors_at(quantization_factor_index(factor_select)) * Pow2(11))
    \div Pow2(quantization_factor_shift(factor_select, tables))

aptx_invert_quantization(invert_quantize, quantized_sample, dither, tables) ==
    Only({
      Only({
        Only({[reconstructed_difference |-> reconstructed_difference,
               factor_select |-> factor_select,
               quantization_factor |->
                   quantization_factor_update(factor_select, tables)] :
              reconstructed_difference \in
                  {I64ToInt32(I64Shr(
                       I64Mul(invert_quantize.quantization_factor,
                              rshift64_clip24(
                                  I64Add(I64ShlInt(qr, 32),
                                         I64Mul(dither,
                                                tables.invert_quantize_dither_factors[idx + 1])),
                                  32)),
                       19))},
              factor_select \in
                  {clip(rshift32(32620 * invert_quantize.factor_select
                                 + tables.quantize_factor_select_offset[idx + 1] * Pow2(15),
                                 15),
                        0, tables.factor_max)}}) :
        qr \in {(IF quantized_sample < 0 THEN -1 ELSE 1)
                * CDiv(tables.quantize_intervals[idx + 1], 2)}}) :
      idx \in {invert_quantization_index(quantized_sample)}})

\* The result holds the prediction and the index (in C terms) of the entry
\* that the returned pointer &rd2[p] names.
aptx_reconstructed_differences_update(prediction, reconstructed_difference, order) ==
    Only({[prediction |->
               [prediction EXCEPT
                  !.pos = p,
                  !.reconstructed_differences =
                      [[prediction.reconstructed_differences EXCEPT
                          ![prediction.pos + 1] =
                              prediction.reconstructed_differences[order + prediction.pos + 1]]
                       EXCEPT ![order + p + 1] = reconstructed_difference]],
           at |-> order + p] :
          p \in {(prediction.pos + 1) % order}})

\* the loop over i of aptx_prediction_filtering: <<d_weight, predicted_difference>>;
\* rds[at - i] is reconstructed_differences[-i-1] and (x >> 31) | 1 is -1 for
\* a negative x and 1 otherwise
prediction_filtering_loop(order, rds, at, srd0, d_weight0) ==
    Only({<<d_weight,
            I64Sum(Tuple([j \in 1 .. order |->
                            I64MulRaw(rds[at - j + 2], d_weight[j])]))>> :
          d_weight \in
              {Tuple([j \in 1 .. Len(d_weight0) |->
                        IF j <= order
                        THEN d_weight0[j]
                             - rshift32(d_weight0[j]
                                        - (IF rds[at - j + 1] < 0 THEN -1 ELSE 1) * srd0, 8)
                        ELSE d_weight0[j]])}})

aptx_prediction_filtering(prediction0, reconstructed_difference, order) ==
    Only({
      Only({
        Only({
          Only({[upd.prediction EXCEPT
                   !.d_weight = lp[1],
                   !.predicted_difference = predicted_difference,
                   !.predicted_sample = clip_intp2(predictor + predicted_difference, 23)] :
                predicted_difference \in {clip_intp2(I64ToInt32(I64Shr(lp[2], 22)), 23)}}) :
          lp \in {prediction_filtering_loop(order,
                      upd.prediction.reconstructed_differences, upd.at,
                      DIFFSIGN(reconstructed_difference, 0) * Pow2(23),
                      upd.prediction.d_weight)}}) :
        predictor \in
            {clip_intp2(I64ToInt32(I64Shr(
                 I64Add(I64Mul(prediction0.s_weight[1],
                               prediction0.previous_reconstructed_sample),
                        I64Mul(prediction0.s_weight[2], reconstructed_sample)),
                 22)), 23)},
        upd \in
            {aptx_reconstructed_differences_update(
                 [prediction0 EXCEPT
                    !.previous_reconstructed_sample = reconstructed_sample],
                 reconstructed_difference, order)}}) :
      reconstructed_sample \in
          {clip_intp2(reconstructed_difference + prediction0.predicted_sample, 23)}})

\* The result holds the two structs the function updates.
aptx_process_subband(invert_quantize0, prediction, quantized_sample, dither, tables) ==
    Only({
      Only({
        Only({
          Only({
            Only({[invert_quantize |-> invert_quantize,
                   prediction |->
                       aptx_prediction_filtering(
                           \* prev_sign[1] = sign | 1
                           [prediction EXCEPT
                              !.prev_sign = <<prediction.prev_sign[2],
                                              IF sign < 0 THEN -1 ELSE 1>>,
                              !.s_weight = <<s_weight0, s_weight1>>],
                           invert_quantize.reconstructed_difference,
                           tables.prediction_order)] :
                  s_weight1 \in
                      {clip(rshift32(255 * prediction.s_weight[2]
                                     + 12582912 * same_sign1, 8),
                            -(3932160 - s_weight0), 3932160 - s_weight0)}}) :
            \* sw1 is (x & ~0xF) * 16 for the clipped x
            s_weight0 \in
                {clip(rshift32(254 * prediction.s_weight[1] + 8388608 * same_sign0
                               + (clip(rshift32(-same_sign1 * prediction.s_weight[2], 1),
                                       -1048576, 1048576) \div 16) * 16 * 16, 8),
                      -3145728, 3145728)}}) :
          same_sign0 \in {sign * prediction.prev_sign[1]},
          same_sign1 \in {sign * prediction.prev_sign[2]}}) :
        sign \in {DIFFSIGN(invert_quantize.reconstructed_difference,
                           -prediction.predicted_difference)}}) :
      invert_quantize \in {aptx_invert_quantization(invert_quantize0, quantized_sample,
                                                    dither, tables)}})

aptx_invert_quantize_and_prediction(channel, hd) ==
    Only({[channel EXCEPT
             !.invert_quantize =
                 Tuple([subband \in 1 .. NB_SUBBANDS |-> r[subband].invert_quantize]),
             !.prediction =
                 Tuple([subband \in 1 .. NB_SUBBANDS |-> r[subband].prediction])] :
          r \in {Tuple([subband \in 1 .. NB_SUBBANDS |->
                          aptx_process_subband(channel.invert_quantize[subband],
                                               channel.prediction[subband],
                                               channel.quantize[subband].quantized_sample,
                                               channel.dither[subband],
                                               tables_of(hd, subband - 1))])}})


(***************************************************************************)
(* Parity, sync insertion, codeword packing.                               *)
(***************************************************************************)
\* The low bit of an XOR is the sum of the low bits modulo 2.
aptx_quantized_parity(channel) ==
    (channel.dither_parity
     + channel.quantize[1].quantized_sample
     + channel.quantize[2].quantized_sample
     + channel.quantize[3].quantized_sample
     + channel.quantize[4].quantized_sample) % 2

\* The result holds the returned value and the new *sync_idx.
aptx_check_parity(channels, sync_idx) ==
    LET parity == (aptx_quantized_parity(channels[LEFT])
                   + aptx_quantized_parity(channels[RIGHT])) % 2
        eighth == IF sync_idx = 7 THEN 1 ELSE 0
    IN  [ret |-> (parity + eighth) % 2, sync_idx |-> (sync_idx + 1) % 8]

\* static const unsigned map[] = { 1, 2, 0, 3 }, as indices of sequences
sync_map == <<2, 3, 1, 4>>

\* the scan that takes the last of the candidates with the minimal error
RECURSIVE insert_sync_scan_last(_, _, _, _)
insert_sync_scan_last(channels, c, i, min) ==
    IF c < LEFT THEN min
    ELSE IF i > NB_SUBBANDS THEN insert_sync_scan_last(channels, c - 1, 1, min)
    ELSE IF channels[c].quantize[sync_map[i]].error
              <= channels[min[1]].quantize[min[2]].error
    THEN insert_sync_scan_last(channels, c, i + 1, <<c, sync_map[i]>>)
    ELSE insert_sync_scan_last(channels, c, i + 1, min)

\* the scan for the minimal error: min is the pair <<channel, subband>>
RECURSIVE insert_sync_scan(_, _, _, _)
insert_sync_scan(channels, c, i, min) ==
    IF c < LEFT THEN min
    ELSE IF i > NB_SUBBANDS THEN insert_sync_scan(channels, c - 1, 1, min)
    ELSE IF channels[c].quantize[sync_map[i]].error
              < channels[min[1]].quantize[min[2]].error
    THEN insert_sync_scan(channels, c, i + 1, <<c, sync_map[i]>>)
    ELSE insert_sync_scan(channels, c, i + 1, min)

\* aptx_insert_sync that advances *sync_idx and leaves the samples alone
aptx_insert_sync_keeps_samples(channels, sync_idx) ==
    [channels |-> channels, sync_idx |-> (sync_idx + 1) % 8]

\* The result holds the channels and the new *sync_idx.
aptx_insert_sync(channels, sync_idx) ==
    Only({[channels |->
               IF chk.ret # 0
               THEN [channels EXCEPT
                       ![min[1]].quantize[min[2]].quantized_sample =
                           channels[min[1]].quantize[min[2]].quantized_sample_parity_change]
               ELSE channels,
           sync_idx |-> chk.sync_idx] :
          chk \in {aptx_check_parity(channels, sync_idx)},
          min \in {insert_sync_scan(channels, NB_CHANNELS, 1,
                                    <<NB_CHANNELS, sync_map[1]>>)}})

aptx_pack_codeword(channel) ==
    LET parity == aptx_quantized_parity(channel)
    IN  ((((channel.quantize[4].quantized_sample \div 2) % 4) * 2 + parity) * Pow2(13)
         + (channel.quantize[3].quantized_sample % 4) * Pow2(11)
         + (channel.quantize[2].quantized_sample % 16) * Pow2(7)
         + (channel.quantize[1].quantized_sample % 128)) % Pow2(16)

aptxhd_pack_codeword(channel) ==
    LET parity == aptx_quantized_parity(channel)
    IN  (((channel.quantize[4].quantized_sample \div 2) % 16) * 2 + parity) * Pow2(19)
        + (channel.quantize[3].quantized_sample % 16) * Pow2(15)
        + (channel.quantize[2].quantized_sample % 64) * Pow2(9)
        + (channel.quantize[1].quantized_sample % 512)

\* the unpacking without quantize[3] = (quantize[3] & ~1) | parity
unpack_keeps_wire_bit(channel, q0, q1, q2, q3) ==
    [channel EXCEPT !.quantize[1].quantized_sample = q0,
                    !.quantize[2].quantized_sample = q1,
                    !.quantize[3].quantized_sample = q2,
                    !.quantize[4].quantized_sample = q3]

\* quantize[3] = (quantize[3] & ~1) | aptx_quantized_parity(channel), the
\* parity taken with the four samples just unpacked
unpack_restore_parity(channel, q0, q1, q2, q3) ==
    LET c == [channel EXCEPT !.quantize[1].quantized_sample = q0,
                             !.quantize[2].quantized_sample = q1,
                             !.quantize[3].quantized_sample = q2,
                             !.quantize[4].quantized_sample = q3]
    IN  [c EXCEPT !.quantize[4].quantized_sample =
                      (q3 \div 2) * 2 + aptx_quantized_parity(c)]

aptx_unpack_codeword(channel, codeword) ==
    unpack_restore_parity(channel,
        sign_extend(codeword, 7),
        sign_extend(codeword \div Pow2(7), 4),
        sign_extend(codeword \div Pow2(11), 2),
        sign_extend(codeword \div Pow2(13), 3))

aptxhd_unpack_codeword(channel, codeword) ==
    unpack_restore_parity(channel,
        sign_extend(codeword, 9),
        sign_extend(codeword \div Pow2(9), 6),
        sign_extend(codeword \div Pow2(15), 4),
        sign_extend(codeword \div Pow2(19), 5))

(***************************************************************************)
(* One frame: four PCM samples per channel, one codeword per channel.      *)
(***************************************************************************)
\* the bytes of one channel's codeword, high byte first
codeword_bytes(channel, hd) ==
    LET bytes3(codeword) ==
            <<(codeword \div Pow2(16)) % 256, (codeword \div 256) % 256,
              codeword % 256>>
        bytes2(codeword) == <<(codeword \div 256) % 256, codeword % 256>>
    IN  IF hd = 1 THEN bytes3(aptxhd_pack_codeword(channel))
        ELSE bytes2(aptx_pack_codeword(channel))

\* aptx_encode_samples that runs the inverse quantization and the prediction
\* on the samples as quantized, before the sync insertion
aptx_encode_samples_predicts_before_sync(ctx, samples) ==
    Only({
      Only({[ctx |-> [ctx EXCEPT
                        !.channels =
                            Tuple([channel \in 1 .. NB_CHANNELS |->
                                     [aptx_invert_quantize_and_prediction(
                                          channels[channel], ctx.hd)
                                      EXCEPT !.quantize = sy.channels[channel].quantize]]),
                        !.sync_idx = sy.sync_idx],
             output |-> codeword_bytes(sy.channels[LEFT], ctx.hd)
                        \o codeword_bytes(sy.channels[RIGHT], ctx.hd)] :
            sy \in {aptx_insert_sync(channels, ctx.sync_idx)}}) :
      channels \in
          {Tuple([channel \in 1 .. NB_CHANNELS |->
                    aptx_encode_channel(ctx.channels[channel], samples[channel],
                                        ctx.hd)])}})

\* samples: <<the 4 samples of LEFT, the 4 samples of RIGHT>>.  The result
\* holds the context and the bytes stored in output.
aptx_encode_samples(ctx, samples) ==
    Only({
      Only({
        Only({[ctx |-> [ctx EXCEPT !.channels = predicted, !.sync_idx = sy.sync_idx],
               output |-> codeword_bytes(predicted[LEFT], ctx.hd)
                          \o codeword_bytes(predicted[RIGHT], ctx.hd)] :
              predicted \in
                  {Tuple([channel \in 1 .. NB_CHANNELS |->
                            aptx_invert_quantize_and_prediction(
                                sy.channels[channel], ctx.hd)])}}) :
        sy \in {aptx_insert_sync(channels, ctx.sync_idx)}}) :
      channels \in
          {Tuple([channel \in 1 .. NB_CHANNELS |->
                    aptx_encode_channel(ctx.channels[channel], samples[channel],
                                        ctx.hd)])}})

\* the codeword of channel number `channel` (0 or 1) read from input
input_codeword(input, channel, hd) ==
    IF hd = 1
    THEN input[3 * channel + 1] * Pow2(16) + input[3 * channel + 2] * 256
         + input[3 * channel + 3]
    ELSE input[2 * channel + 1] * 256 + input[2 * channel + 2]

\* input: the bytes of one codeword pair.  The result holds the context,
\* the returned value and the samples (4 per channel).
aptx_decode_samples(ctx, input) ==
    Only({
      Only({[ctx |-> [ctx EXCEPT
                        !.channels =
                            Tuple([channel \in 1 .. NB_CHANNELS |-> d[channel].channel]),
                        !.sync_idx = chk.sync_idx],
             ret |-> chk.ret,
             samples |->
                 Tuple([channel \in 1 .. NB_CHANNELS |-> d[channel].samples])] :
            chk \in {aptx_check_parity(channels, ctx.sync_idx)},
            d \in {Tuple([channel \in 1 .. NB_CHANNELS |->
                            aptx_decode_channel(channels[channel])])}}) :
      channels \in
          {Tuple([channel \in 1 .. NB_CHANNELS |->
                    aptx_invert_quantize_and_prediction(
                        IF ctx.hd = 1
                        THEN aptxhd_unpack_codeword(
                                 aptx_generate_dither(ctx.channels[channel]),
                                 input_codeword(input, channel - 1, ctx.hd))
                        ELSE aptx_unpack_codeword(
                                 aptx_generate_dither(ctx.channels[channel]),
                                 input_codeword(input, channel - 1, ctx.hd)),
                        ctx.hd)])}})


(***************************************************************************)
(* The context.                                                            *)
(***************************************************************************)
\* n zeros
Zeros(n) == Tuple([i \in 1 .. n |-> 0])

zero_filter_signal == [buffer |-> Zeros(2 * FILTER_TAPS), pos |-> 0]

zero_prediction ==
    [prev_sign |-> <<0, 0>>, s_weight |-> <<0, 0>>, d_weight |-> Zeros(24),
     pos |-> 0, reconstructed_differences |-> Zeros(48),
     previous_reconstructed_sample |-> 0, predicted_difference |-> 0,
     predicted_sample |-> 0]

zero_quantize ==
    [quantized_sample |-> 0, quantized_sample_parity_change |-> 0, error |-> 0]

zero_invert_quantize ==
    [quantization_factor |-> 0, factor_select |-> 0, reconstructed_difference |-> 0]

zero_channel ==
    [codeword_history |-> 0, dither_parity |-> 0, dither |-> Zeros(NB_SUBBANDS),
     qmf |-> [outer_filter_signal |-> <<zero_filter_signal, zero_filter_signal>>,
              inner_filter_signal |->
                  <<<<zero_filter_signal, zero_filter_signal>>,
                    <<zero_filter_signal, zero_filter_signal>>>>],
     quantize |-> <<zero_quantize, zero_quantize, zero_quantize, zero_quantize>>,
     invert_quantize |-> <<zero_invert_quantize, zero_invert_quantize,
                           zero_invert_quantize, zero_invert_quantize>>,
     prediction |-> <<zero_prediction, zero_prediction,
                      zero_prediction, zero_prediction>>]

\* struct aptx_context with every byte 0
zero_context ==
    [decode_sync_packets |-> 0, decode_dropped |-> 0,
     channels |-> <<zero_channel, zero_channel>>,
     hd |-> 0, sync_idx |-> 0, encode_remaining |-> 0, decode_skip_leading |-> 0,
     decode_sync_buffer_len |-> 0, decode_sync_buffer |-> Zeros(6)]

reset_prediction(prediction) == [prediction EXCEPT !.prev_sign = <<1, 1>>]

reset_channel(channel) ==
    [channel EXCEPT !.prediction =
        <<reset_prediction(channel.prediction[1]), reset_prediction(channel.prediction[2]),
          reset_prediction(channel.prediction[3]), reset_prediction(channel.prediction[4])>>]

\* aptx_reset that leaves the sync counter alone
aptx_reset_keeps_sync_idx(ctx) ==
    [zero_context EXCEPT
       !.hd = ctx.hd,
       !.sync_idx = ctx.sync_idx,
       !.decode_skip_leading = (LATENCY_SAMPLES + 3) \div 4,
       !.encode_remaining = (LATENCY_SAMPLES + 3) \div 4,
       !.channels = <<[zero_channel EXCEPT
                         !.prediction = Tuple([s \in 1 .. NB_SUBBANDS |->
                             [zero_prediction EXCEPT !.prev_sign = <<1, 1>>]])],
                      [zero_channel EXCEPT
                         !.prediction = Tuple([s \in 1 .. NB_SUBBANDS |->
                             [zero_prediction EXCEPT !.prev_sign = <<1, 1>>]])]>>]

aptx_reset(ctx) ==
    [zero_context EXCEPT
       !.hd = ctx.hd,
       !.decode_skip_leading = (LATENCY_SAMPLES + 3) \div 4,
       !.encode_remaining = (LATENCY_SAMPLES + 3) \div 4,
       !.channels = <<reset_channel(zero_context.channels[LEFT]),
                      reset_channel(zero_context.channels[RIGHT])>>]

\* mem: what malloc returned, any content
aptx_init(hd, mem) == aptx_reset([mem EXCEPT !.hd = IF hd # 0 THEN 1 ELSE 0])

\* the reset that keeps nothing of the synchronization
aptx_reset_decode_sync_clears(ctx) == aptx_reset(ctx)

\* aptx_reset_decode_sync that keeps decode_skip_leading as well
aptx_reset_decode_sync_keeps_skip(ctx) ==
    [aptx_reset(ctx) EXCEPT
       !.decode_sync_buffer = ctx.decode_sync_buffer,
       !.decode_sync_buffer_len = ctx.decode_sync_buffer_len,
       !.decode_sync_packets = ctx.decode_sync_packets,
       !.decode_dropped = ctx.decode_dropped,
       !.decode_skip_leading = ctx.decode_skip_leading]

aptx_reset_decode_sync(ctx) ==
    [aptx_reset(ctx) EXCEPT
       !.decode_sync_buffer = ctx.decode_sync_buffer,
       !.decode_sync_buffer_len = ctx.decode_sync_buffer_len,
       !.decode_sync_packets = ctx.decode_sync_packets,
       !.decode_dropped = ctx.decode_dropped]

(***************************************************************************)
(* Streaming encode and decode.  input is the sequence of input bytes and  *)
(* input_size its length; the result of a call holds the context, the      *)
(* returned value, *written and the bytes stored in the output buffer.     *)
(***************************************************************************)
sample_size_of(ctx) == IF ctx.hd # 0 THEN 6 ELSE 4

\* (int8_t)b for a byte b
int8(b) == IF b >= 128 THEN b - 256 ELSE b

\* the 24 bit sample stored at input[ipos], ipos counted from 0
pcm_sample(input, ipos) ==
    input[ipos + 1] + input[ipos + 2] * 256 + int8(input[ipos + 3]) * 65536

\* samples[channel][sample] of the frame that starts at ipos
pcm_frame(input, ipos) ==
    <<<<pcm_sample(input, ipos), pcm_sample(input, ipos + 6),
        pcm_sample(input, ipos + 12), pcm_sample(input, ipos + 18)>>,
      <<pcm_sample(input, ipos + 3), pcm_sample(input, ipos + 9),
        pcm_sample(input, ipos + 15), pcm_sample(input, ipos + 21)>>>>

\* encode_pass that does not look at the room left in the output
encode_pass_any_room(l, input, output_size) ==
    LET stored(e) ==
            InOrder(<<e,
              [ctx |-> e.ctx, ipos |-> l.ipos + 3 * NB_CHANNELS * 4,
               output |-> l.output \o e.output]>>)
    IN  IF l.ipos + 3 * NB_CHANNELS * 4 <= Len(input)
        THEN stored(aptx_encode_samples(l.ctx, pcm_frame(input, l.ipos)))
        ELSE l

\* One pass of the loop of aptx_encode; l holds ctx, ipos and the bytes
\* stored so far (opos is their number).  A pass whose condition fails leaves
\* l as it is: the loop has ended.
encode_pass(l, input, output_size) ==
    LET stored(e) ==
            InOrder(<<e,
              [ctx |-> e.ctx, ipos |-> l.ipos + 3 * NB_CHANNELS * 4,
               output |-> l.output \o e.output]>>)
    IN  IF l.ipos + 3 * NB_CHANNELS * 4 <= Len(input)
           /\ Len(l.output) + sample_size_of(l.ctx) <= output_size
        THEN stored(aptx_encode_samples(l.ctx, pcm_frame(input, l.ipos)))
        ELSE l

\* n passes of the loop, the first half of them before the second
RECURSIVE encode_loop(_, _, _, _)
encode_loop(l, n, input, output_size) ==
    LET rest(half) ==
            InOrder(<<half, encode_loop(half, n - n \div 2, input, output_size)>>)
    IN  IF n = 0 THEN l
        ELSE IF n = 1 THEN encode_pass(l, input, output_size)
        ELSE rest(encode_loop(l, n \div 2, input, output_size))

\* The loop ends within Len(input) \div 24 passes, each taking 24 bytes.
aptx_encode(ctx, input, output_size) ==
    LET returned(l) ==
            InOrder(<<l,
              [ctx |-> l.ctx, ret |-> l.ipos, written |-> Len(l.output),
               output |-> l.output]>>)
    IN  returned(encode_loop([ctx |-> ctx, ipos |-> 0, output |-> <<>>],
                             Len(input) \div (3 * NB_CHANNELS * 4), input,
                             output_size))

zero_samples == <<Zeros(4), Zeros(4)>>

\* One pass of the loop of aptx_encode_finish; l holds ctx and the bytes
\* stored so far.
encode_finish_pass(l, output_size) ==
    LET stored(e) ==
            InOrder(<<e,
              [ctx |-> [e.ctx EXCEPT !.encode_remaining = l.ctx.encode_remaining - 1],
               output |-> l.output \o e.output]>>)
    IN  IF l.ctx.encode_remaining > 0
           /\ Len(l.output) + sample_size_of(l.ctx) <= output_size
        THEN stored(aptx_encode_samples(l.ctx, zero_samples))
        ELSE l

RECURSIVE encode_finish_loop(_, _, _)
encode_finish_loop(l, n, output_size) ==
    LET rest(half) ==
            InOrder(<<half, encode_finish_loop(half, n - n \div 2, output_size)>>)
    IN  IF n = 0 THEN l
        ELSE IF n = 1 THEN encode_finish_pass(l, output_size)
        ELSE rest(encode_finish_loop(l, n \div 2, output_size))

\* aptx_encode_finish that resets the context whatever is left to emit
aptx_encode_finish_resets(ctx, output_size) ==
    LET returned(l) ==
            InOrder(<<l,
              [ctx |-> aptx_reset(l.ctx), ret |-> 1, written |-> Len(l.output),
               output |-> l.output]>>)
    IN  IF ctx.encode_remaining = 0
        THEN [ctx |-> ctx, ret |-> 1, written |-> 0, output |-> <<>>]
        ELSE returned(encode_finish_loop([ctx |-> ctx, output |-> <<>>],
                                         ctx.encode_remaining, output_size))

\* The loop ends within encode_remaining passes, each taking one off it.
aptx_encode_finish(ctx, output_size) ==
    LET returned(l) ==
            InOrder(<<l,
              IF l.ctx.encode_remaining > 0
              THEN [ctx |-> l.ctx, ret |-> 0, written |-> Len(l.output),
                    output |-> l.output]
              ELSE [ctx |-> aptx_reset(l.ctx), ret |-> 1, written |-> Len(l.output),
                    output |-> l.output]>>)
    IN  IF ctx.encode_remaining = 0
        THEN [ctx |-> ctx, ret |-> 1, written |-> 0, output |-> <<>>]
        ELSE returned(encode_finish_loop([ctx |-> ctx, output |-> <<>>],
                                         ctx.encode_remaining, output_size))

\* the three bytes stored for one sample
pcm_bytes(s) == <<s % 256, (s \div 256) % 256, (s \div 65536) % 256>>

\* the bytes stored for the samples sample .. 3 of a frame, LEFT then RIGHT
RECURSIVE frame_bytes(_, _)
frame_bytes(samples, sample) ==
    IF sample >= 4 THEN <<>>
    ELSE pcm_bytes(samples[LEFT][sample + 1]) \o pcm_bytes(samples[RIGHT][sample + 1])
         \o frame_bytes(samples, sample + 1)

\* the codeword pair that starts at input[ipos]
codeword_at(input, ipos, n) == SubSeq(input, ipos + 1, ipos + n)

\* decode_pass with the first sample stored for the codeword pair that ends
\* the latency, and with the passes after a failed parity check, as given
decode_pass_variant(l, input, input_size, output_size, first, stops) ==
    LET stored(d) ==
            LET skip == d.ctx.decode_skip_leading
            IN  InOrder(<<d,
              IF d.ret # 0 /\ stops
              THEN [l EXCEPT !.ctx = d.ctx, !.broke = TRUE]
              ELSE [ctx |-> [d.ctx EXCEPT !.decode_skip_leading =
                                              IF skip > 0 THEN skip - 1 ELSE 0],
                    ipos |-> l.ipos + sample_size_of(l.ctx),
                    output |-> l.output
                               \o (IF skip > 1 THEN <<>>
                                   ELSE IF skip = 1
                                   THEN frame_bytes(d.samples, first)
                                   ELSE frame_bytes(d.samples, 0)),
                    broke |-> l.broke \/ d.ret # 0]>>)
    IN  IF (~l.broke \/ ~stops)
           /\ l.ipos + sample_size_of(l.ctx) <= input_size
           /\ (Len(l.output) + 3 * NB_CHANNELS * 4 <= output_size
               \/ l.ctx.decode_skip_leading > 0)
        THEN stored(aptx_decode_samples(l.ctx,
                        codeword_at(input, l.ipos, sample_size_of(l.ctx))))
        ELSE l

\* decode_pass storing all four samples of the codeword pair that ends the
\* latency
decode_pass_whole_frame(l, input, input_size, output_size) ==
    decode_pass_variant(l, input, input_size, output_size, 0, TRUE)

\* decode_pass going on after a failed parity check
decode_pass_goes_on(l, input, input_size, output_size) ==
    decode_pass_variant(l, input, input_size, output_size, LATENCY_SAMPLES % 4, FALSE)

\* One pass of the loop of aptx_decode; l holds ctx, ipos, the bytes stored
\* so far and whether the loop was left by the break.
decode_pass(l, input, input_size, output_size) ==
    LET stored(d) ==
            LET skip == d.ctx.decode_skip_leading
            IN  InOrder(<<d,
              IF d.ret # 0
              THEN [l EXCEPT !.ctx = d.ctx, !.broke = TRUE]
              ELSE [ctx |-> [d.ctx EXCEPT !.decode_skip_leading =
                                              IF skip > 0 THEN skip - 1 ELSE 0],
                    ipos |-> l.ipos + sample_size_of(l.ctx),
                    output |-> l.output
                               \o (IF skip > 1 THEN <<>>
                                   ELSE IF skip = 1
                                   THEN frame_bytes(d.samples, LATENCY_SAMPLES % 4)
                                   ELSE frame_bytes(d.samples, 0)),
                    broke |-> FALSE]>>)
    IN  IF ~l.broke
           /\ l.ipos + sample_size_of(l.ctx) <= input_size
           /\ (Len(l.output) + 3 * NB_CHANNELS * 4 <= output_size
               \/ l.ctx.decode_skip_leading > 0)
        THEN stored(aptx_decode_samples(l.ctx,
                        codeword_at(input, l.ipos, sample_size_of(l.ctx))))
        ELSE l

RECURSIVE decode_loop(_, _, _, _, _)
decode_loop(l, n, input, input_size, output_size) ==
    LET rest(half) ==
            InOrder(<<half, decode_loop(half, n - n \div 2, input, input_size,
                                        output_size)>>)
    IN  IF n = 0 THEN l
        ELSE IF n = 1 THEN decode_pass(l, input, input_size, output_size)
        ELSE rest(decode_loop(l, n \div 2, input, input_size, output_size))

\* input_size may be less than Len(input): the call reads
\* input[0 .. input_size-1].  The loop ends within input_size \div sample_size
\* passes, each taking one codeword pair.  broke tells whether the loop was
\* left by the break; written may exceed output_size, and then the bytes
\* beyond output_size are the ones stored past the end of the buffer.
aptx_decode(ctx, input, input_size, output_size) ==
    LET returned(l) ==
            InOrder(<<l,
              [ctx |-> l.ctx, ret |-> l.ipos, written |-> Len(l.output),
               output |-> l.output, broke |-> l.broke]>>)
    IN  returned(decode_loop([ctx |-> ctx, ipos |-> 0, output |-> <<>>,
                              broke |-> FALSE],
                             input_size \div sample_size_of(ctx), input, input_size,
                             output_size))

(***************************************************************************)
(* aptx_decode_sync.  The local state l of a call holds ctx, ipos, the     *)
(* bytes stored in the output (opos is their number), *synced, *dropped,   *)
(* whether a byte was stored beyond decode_sync_buffer[5], whether the     *)
(* main loop has come to a pass that changes nothing and so never ends,    *)
(* and whether the last aptx_decode stopped at a parity failure.           *)
(***************************************************************************)
\* a size_t value above every buffer size: what output_size - opos is once
\* opos has passed output_size, and what multiples of it are
SIZE_HUGE == Pow2(30)

\* output_size - opos as aptx_decode is given it
size_sub(output_size, opos) ==
    IF opos <= output_size THEN output_size - opos ELSE SIZE_HUGE

\* (((output_size - opos) / 3*NB_CHANNELS*4) + decode_skip_leading) * sample_size
\* in size_t: the division is by 3 alone.  With opos = output_size + e the
\* difference is 2^64 - e, whose third is (2^64 - 1) / 3 - m for
\* m = (e + r - 1) / 3, r = (1 - e) mod 3; times 8 * 6 that is -16 - 48 * m
\* modulo 2^64, and times 8 * 4 it is (2^65 - 32) / 3 - 32 * m.
input_size_step_of(output_size, opos, skip, sample_size) ==
    IF opos <= output_size
    THEN (((output_size - opos) \div 3) * NB_CHANNELS * 4 + skip) * sample_size
    ELSE LET e == opos - output_size
             m == (e + ((1 - e) % 3) - 1) \div 3
             wrapped == -16 - 48 * m + 6 * skip
         IN  IF sample_size = 6 /\ wrapped >= 0 THEN wrapped ELSE SIZE_HUGE

\* decode_sync_buffer with the bytes stored from index at on; a byte whose
\* index is beyond the array is not in it
buffer_store(buffer, at, bytes) ==
    [i \in 1 .. 6 |-> IF i > at /\ i <= at + Len(bytes) THEN bytes[i - at]
                      ELSE buffer[i]]

\* the cache is not filled from the input
decode_sync_fill_none(l, input, input_size) == l

\* "If we have some unprocessed bytes in internal cache, first fill remaining
\* data to internal cache except the final byte".  sample_size-1 - len is a
\* size_t, above every input_size when len is more than sample_size-1.
decode_sync_fill(l, input, input_size) ==
    LET sample_size == sample_size_of(l.ctx)
        len == l.ctx.decode_sync_buffer_len
    IN  IF len > 0 /\ len <= sample_size - 1 /\ sample_size - 1 - len <= input_size
        THEN [l EXCEPT
                !.ctx.decode_sync_buffer =
                    buffer_store(@, len, SubSeq(input, 1, sample_size - 1 - len)),
                !.ctx.decode_sync_buffer_len = sample_size - 1,
                !.ipos = sample_size - 1 - len]
        ELSE l

\* the dropped bytes are reported at the first codeword pair decoded after a
\* failure
decode_sync_count_at_once(ctx, processed_step, sample_size) ==
    IF ctx.decode_dropped > 0 /\ processed_step \div sample_size > 0
    THEN [ctx |-> [ctx EXCEPT !.decode_dropped = 0, !.decode_sync_packets = 0],
          dropped |-> ctx.decode_dropped + processed_step]
    ELSE [ctx |-> ctx, dropped |-> 0]

\* the count of the codeword pairs decoded since the last failure, after
\* aptx_decode has processed processed_step bytes: the result holds ctx and
\* what is added to *dropped
decode_sync_count(ctx, processed_step, sample_size) ==
    IF ctx.decode_dropped > 0 /\ processed_step \div sample_size > 0
    THEN IF ctx.decode_sync_packets + processed_step \div sample_size
            >= (LATENCY_SAMPLES + 3) \div 4
         THEN [ctx |-> [ctx EXCEPT !.decode_dropped = 0, !.decode_sync_packets = 0],
               dropped |-> ctx.decode_dropped + processed_step]
         ELSE [ctx |-> [ctx EXCEPT
                          !.decode_dropped = @ + processed_step,
                          !.decode_sync_packets = @ + processed_step \div sample_size],
               dropped |-> 0]
    ELSE [ctx |-> ctx, dropped |-> 0]

\* the state after a failed step: aptx_reset_decode_sync, decode_dropped++,
\* decode_sync_packets = 0
decode_sync_failed(ctx) ==
    [aptx_reset_decode_sync(ctx) EXCEPT
       !.decode_dropped = ctx.decode_dropped + 1,
       !.decode_sync_packets = 0]

\* there is room for a frame, or the step is to store none or to be counted
decode_sync_goes_on(l, output_size) ==
    \/ Len(l.output) + 3 * NB_CHANNELS * 4 <= output_size
    \/ l.ctx.decode_skip_leading > 0
    \/ l.ctx.decode_dropped > 0

\* One pass of the "internal cache decode loop".
decode_sync_cache_pass(l, input, input_size, output_size) ==
    IF /\ l.ctx.decode_sync_buffer_len = sample_size_of(l.ctx) - 1
       /\ l.ipos < sample_size_of(l.ctx)
       /\ l.ipos < input_size
       /\ decode_sync_goes_on(l, output_size)
    THEN Only({
           Only({
             Only({
               IF d.ret < sample_size_of(l.ctx)
               THEN [l EXCEPT
                       !.ctx = [decode_sync_failed(c.ctx) EXCEPT
                                  !.decode_sync_buffer =
                                      [i \in 1 .. 6 |->
                                         IF i <= sample_size_of(l.ctx) - 1
                                         THEN buffer[i + 1]
                                         ELSE buffer[i]]],
                       !.ipos = @ + 1,
                       !.output = @ \o d.output,
                       !.dropped = @ + c.dropped,
                       !.synced = 0,
                       !.broke = d.broke]
               ELSE [l EXCEPT
                       !.ctx = [c.ctx EXCEPT !.decode_sync_buffer = buffer,
                                             !.decode_sync_buffer_len = 0],
                       !.ipos = @ + 1,
                       !.output = @ \o d.output,
                       !.dropped = @ + c.dropped,
                       !.synced = IF c.ctx.decode_dropped = 0 THEN 1 ELSE @,
                       !.broke = d.broke] :
               c \in {decode_sync_count(d.ctx, d.ret, sample_size_of(l.ctx))}}) :
             d \in {aptx_decode(l.ctx, SubSeq(buffer, 1, sample_size_of(l.ctx)),
                                sample_size_of(l.ctx),
                                size_sub(output_size, Len(l.output)))}}) :
           buffer \in {buffer_store(l.ctx.decode_sync_buffer,
                                    sample_size_of(l.ctx) - 1,
                                    <<input[l.ipos + 1]>>)}})
    ELSE l

RECURSIVE decode_sync_cache_loop(_, _, _, _, _)
decode_sync_cache_loop(l, n, input, input_size, output_size) ==
    LET rest(first) ==
            InOrder(<<first, decode_sync_cache_loop(first, n - 1, input, input_size,
                                                    output_size)>>)
    IN  IF n = 0 THEN l
        ELSE rest(decode_sync_cache_pass(l, input, input_size, output_size))

\* the main loop without the rewind to the input buffer
decode_sync_rewind_none(l) == l

\* "If all unprocessed data are now available only in input buffer, do not
\* use internal cache"
decode_sync_rewind(l) ==
    IF l.ctx.decode_sync_buffer_len = sample_size_of(l.ctx) - 1
       /\ l.ipos = sample_size_of(l.ctx)
    THEN [l EXCEPT !.ipos = 0, !.ctx.decode_sync_buffer_len = 0]
    ELSE l

\* input_size_step of a pass of the main loop
decode_sync_step(l, input_size, output_size) ==
    LET sample_size == sample_size_of(l.ctx)
        whole == ((input_size - l.ipos) \div sample_size) * sample_size
        window == ((LATENCY_SAMPLES + 3) \div 4 - l.ctx.decode_sync_packets)
                  * sample_size
        limited(step) ==
            IF step > window /\ l.ctx.decode_dropped > 0 THEN window ELSE step
        clamped(step) == limited(IF step > whole THEN whole ELSE step)
    IN  clamped(input_size_step_of(output_size, Len(l.output),
                                   l.ctx.decode_skip_leading, sample_size))

\* One pass of the "main decode loop".
\* the failed step that leaves *synced as it is
decode_sync_pass_failed_keeps_synced(l, c, d) ==
    [l EXCEPT
       !.ctx = decode_sync_failed(c.ctx),
       !.ipos = @ + d.ret + 1,
       !.output = @ \o d.output,
       !.dropped = @ + c.dropped,
       !.broke = d.broke]

\* "if (processed_step < input_size_step)" of the main loop: d is what
\* aptx_decode returned and c what the count of the codeword pairs left
decode_sync_pass_failed(l, c, d) ==
    [l EXCEPT
       !.ctx = decode_sync_failed(c.ctx),
       !.ipos = @ + d.ret + 1,
       !.output = @ \o d.output,
       !.dropped = @ + c.dropped,
       !.synced = 0,
       !.broke = d.broke]

decode_sync_pass(l, input, input_size, output_size) ==
    IF /\ ~l.endless
       /\ l.ipos + sample_size_of(l.ctx) <= input_size
       /\ decode_sync_goes_on(l, output_size)
    THEN Only({
           Only({
             Only({
               IF d.ret < step
               THEN decode_sync_pass_failed(l, c, d)
               ELSE [l EXCEPT
                       !.ctx = c.ctx,
                       !.ipos = @ + d.ret,
                       !.output = @ \o d.output,
                       !.dropped = @ + c.dropped,
                       !.synced = IF c.ctx.decode_dropped = 0 THEN 1 ELSE @,
                       !.broke = d.broke,
                       !.endless = (step = 0)] :
               c \in {decode_sync_count(d.ctx, d.ret, sample_size_of(l.ctx))}}) :
             d \in {aptx_decode(l.ctx, SubSeq(input, l.ipos + 1, l.ipos + step),
                                step, size_sub(output_size, Len(l.output)))}}) :
           step \in {decode_sync_step(l, input_size, output_size)}})
    ELSE l

\* n passes of the main loop, or as many as it makes
RECURSIVE decode_sync_loop(_, _, _, _, _)
decode_sync_loop(l, n, input, input_size, output_size) ==
    LET rest(half) ==
            InOrder(<<half, decode_sync_loop(half, n - n \div 2, input, input_size,
                                             output_size)>>)
    IN  IF n = 0 THEN l
        ELSE IF n = 1 THEN decode_sync_pass(l, input, input_size, output_size)
        ELSE rest(decode_sync_loop(l, n \div 2, input, input_size, output_size))

\* the bytes left over are not taken
decode_sync_store_none(l, input, input_size) == l

\* "If number of unprocessed bytes is less then sample size store them to
\* internal cache"
decode_sync_store(l, input, input_size) ==
    IF l.ipos + sample_size_of(l.ctx) > input_size /\ l.ipos < input_size
    THEN [l EXCEPT
            !.ctx.decode_sync_buffer =
                buffer_store(@, l.ctx.decode_sync_buffer_len,
                             SubSeq(input, l.ipos + 1, input_size)),
            !.ctx.decode_sync_buffer_len = (@ + (input_size - l.ipos)) % 256,
            !.ipos = input_size,
            !.overrun = l.ctx.decode_sync_buffer_len + (input_size - l.ipos) > 6]
    ELSE l

\* The main loop takes at least one byte per pass, so it ends within
\* input_size passes unless it is endless.
aptx_decode_sync(ctx, input, input_size, output_size) ==
    Only({[ctx |-> l.ctx, ret |-> l.ipos, written |-> Len(l.output),
           output |-> l.output, synced |-> l.synced, dropped |-> l.dropped,
           overrun |-> l.overrun, endless |-> l.endless, broke |-> l.broke] :
          l \in {decode_sync_store(looped, input, input_size) :
                 looped \in {decode_sync_loop(rewound, input_size, input,
                                              input_size, output_size) :
                   rewound \in {decode_sync_rewind(cached) :
                     cached \in {decode_sync_cache_loop(filled, sample_size_of(ctx),
                                                        input, input_size,
                                                        output_size) :
                       filled \in {decode_sync_fill(
                                      [ctx |-> ctx, ipos |-> 0, output |-> <<>>,
                                       synced |-> 0, dropped |-> 0,
                                       overrun |-> FALSE, endless |-> FALSE,
                                       broke |-> FALSE],
                                      input, input_size)}}}}}})

\* the cache is counted after the reset
aptx_decode_sync_finish_after_reset(ctx) ==
    [ctx |-> aptx_reset(ctx), ret |-> aptx_reset(ctx).decode_sync_buffer_len]

\* the result holds the returned value and the context
aptx_decode_sync_finish(ctx) ==
    [ctx |-> aptx_reset(ctx), ret |-> ctx.decode_sync_buffer_len]

(***************************************************************************)
(* The callers.  A context serves one stream at a time: PCM frames are     *)
(* encoded and the stream is then finished, or codewords are decoded;      *)
(* aptx_reset begins a new stream (src/openaptx.h).  A call is one action; *)
(* `call` holds what the caller passed and got back until it goes on, and  *)
(* `stream` counts what the stream has seen since the last reset.          *)
(***************************************************************************)
\* PCM frames a stream encodes at most
MaxFrames == 2

\* codeword pairs that a middle-sized output buffer of aptx_encode_finish holds
FlushStep == 8

\* PCM frames in the stream that the decoder is fed
DecodeFrames == 2

\* the codeword pairs that aptx_encode_finish emits for one stream
FlushFrames == (LATENCY_SAMPLES + 3) \div 4

SampleSize(hd) == IF hd # 0 THEN 6 ELSE 4

PcmKinds == {"silence", "loud"}

\* byte i (from 0) of a PCM frame: silence, or full scale with alternating
\* sign, the two channels in opposite phase
PcmByte(kind, i) ==
    IF kind = "silence" THEN 0
    ELSE LET sample == (i % 24) \div 3
             positive == ((sample \div 2) + sample) % 2 = 0
         IN  IF i % 3 = 2 THEN (IF positive THEN 127 ELSE 128)
             ELSE (IF positive THEN 255 ELSE 0)

PcmInput(kind, size) == Tuple([i \in 1 .. size |-> PcmByte(kind, i - 1)])

EncodeInputSizes == {24 * k + r : k \in 0 .. MaxFrames, r \in {0, 23}}

EncodeOutputSizes(S) == {S * k + r : k \in 0 .. MaxFrames, r \in {0, S - 1}}

FlushOutputSizes(S) ==
    {0, S - 1, FlushStep * S, FlushFrames * S - 1, FlushFrames * S,
     (FlushFrames + 1) * S + 1}

\* what malloc may return: zeros, or a context that was in use
Garbage(kind) ==
    IF kind = "zeros" THEN zero_context
    ELSE [zero_context EXCEPT
            !.hd = 85, !.sync_idx = 5, !.encode_remaining = 3,
            !.decode_skip_leading = 0, !.decode_dropped = 9,
            !.decode_sync_packets = 4, !.decode_sync_buffer_len = 2,
            !.channels[LEFT].prediction[1].prev_sign = <<-1, 0>>,
            !.channels[RIGHT].codeword_history = 4660,
            !.channels[RIGHT].qmf.outer_filter_signal[1].pos = 7]

VARIABLES context, mode, stream, call

vars == <<context, mode, stream, call>>

NoStream ==
    [frames |-> 0, flushed |-> 0, pcm |-> 0, finished |-> FALSE, kind |-> "",
     chunk |-> 0, fed |-> 0, starved |-> FALSE, resynced |-> FALSE,
     dropped |-> 0]

Idle ==
    [op |-> "idle", kind |-> "", bad |-> 0, input_size |-> 0, output_size |-> 0,
     ret |-> 0, written |-> 0, output |-> <<>>, before |-> NoStream, skip |-> 0,
     broke |-> FALSE, synced |-> 0, dropped |-> 0, overrun |-> FALSE,
     entry |-> zero_context]

Init ==
    \E hd \in {0, 1}, mem \in {"zeros", "used"} :
        /\ context = aptx_init(hd, Garbage(mem))
        /\ mode = "fresh"
        /\ stream = NoStream
        /\ call = [Idle EXCEPT !.op = "init", !.kind = mem]

\* The caller has taken the results of the call and goes on.
Return ==
    /\ call.op # "idle"
    /\ call' = Idle
    /\ UNCHANGED <<context, mode, stream>>

Encode(kind, input_size, output_size) ==
    /\ call.op = "idle"
    /\ mode \in {"fresh", "encode"}
    /\ stream.frames + input_size \div 24 <= MaxFrames
    /\ \E r \in {aptx_encode(context, PcmInput(kind, input_size), output_size)} :
           /\ context' = r.ctx
           /\ mode' = IF r.ret > 0 THEN "encode" ELSE mode
           /\ stream' = [stream EXCEPT !.frames = @ + r.ret \div 24,
                                       !.finished = FALSE]
           /\ call' = [Idle EXCEPT !.op = "encode", !.kind = kind,
                                   !.input_size = input_size,
                                   !.output_size = output_size,
                                   !.ret = r.ret, !.written = r.written,
                                   !.output = r.output, !.before = stream]

EncodeFinish(output_size) ==
    /\ call.op = "idle"
    /\ mode \in {"fresh", "encode", "flush"}
    /\ \E r \in {aptx_encode_finish(context, output_size)} :
           /\ context' = r.ctx
           /\ mode' = IF r.ret # 0 THEN "fresh"
                      ELSE IF r.written > 0 THEN "flush" ELSE mode
           /\ stream' = IF r.ret # 0 THEN [NoStream EXCEPT !.finished = TRUE]
                        ELSE [stream EXCEPT
                                !.frames = @ + r.written \div SampleSize(context.hd),
                                !.flushed = @ + r.written \div SampleSize(context.hd),
                                !.finished = FALSE]
           /\ call' = [Idle EXCEPT !.op = "encode_finish",
                                   !.output_size = output_size,
                                   !.ret = r.ret, !.written = r.written,
                                   !.output = r.output, !.before = stream]

Reset ==
    /\ call.op = "idle"
    /\ context' = aptx_reset(context)
    /\ mode' = "fresh"
    /\ stream' = NoStream
    /\ call' = [Idle EXCEPT !.op = "reset", !.before = stream, !.entry = context]


\* PCM frames of silence in the long stream that aptx_decode_sync is fed
SyncFrames == 48

\* The streams the decoder is fed: what the encoder makes of DecodeFrames loud
\* frames, finished, for hd = 0 and hd = 1, and then what it makes of
\* SyncFrames frames of silence.
DecodeStreams ==
    LET finished(e, f) == InOrder(<<f, e.output \o f.output>>)
        encoded(hd, e) ==
            InOrder(<<e,
              finished(e, aptx_encode_finish(e.ctx, SampleSize(hd) * FlushFrames))>>)
        frames(i) == IF i <= 2 THEN DecodeFrames ELSE SyncFrames
    IN  Tuple([i \in 1 .. 4 |->
                 encoded((i - 1) % 2,
                         aptx_encode(aptx_init((i - 1) % 2, zero_context),
                                     PcmInput(IF i <= 2 THEN "loud" ELSE "silence",
                                              24 * frames(i)),
                                     SampleSize((i - 1) % 2) * frames(i)))])

DecodeStream(hd) == DecodeStreams[hd + 1]

\* the long stream of silence
SilenceStream(hd) == DecodeStreams[hd + 3]

\* the input with the parity bit of the LEFT codeword of codeword pair number
\* bad (from 1) inverted, bad = 0 for none: bit 13 of the 16 bit word of aptX,
\* bit 19 of the 24 bit word of aptX HD, in its first byte
Corrupt(input, S, bad) ==
    LET bit == IF S = 6 THEN 8 ELSE 32
    IN  IF bad = 0 THEN input
        ELSE [input EXCEPT ![(bad - 1) * S + 1] =
                               IF (@ \div bit) % 2 = 1 THEN @ - bit ELSE @ + bit]

DecodeInputSizes(S) == {S - 1, S, 2 * S + 1, (FlushFrames + DecodeFrames) * S}

DecodeOutputSizes == {0, 11, 12, 36, 24 * (DecodeFrames + 1)}

\* The caller offers the next input_size bytes of the stream, with codeword
\* pair `bad` of them damaged.
Decode(input_size, output_size, bad) ==
    /\ call.op = "idle"
    /\ mode \in {"fresh", "decode"}
    /\ \E S \in {SampleSize(context.hd)}, all \in {DecodeStream(context.hd)} :
           /\ stream.frames * S + input_size <= Len(all)
           /\ bad * S <= input_size
           /\ \E r \in {aptx_decode(context,
                               Corrupt(SubSeq(all, stream.frames * S + 1,
                                              stream.frames * S + input_size),
                                       S, bad),
                               input_size, output_size)} :
                  /\ context' = r.ctx
                  /\ mode' = IF r.broke THEN "failed"
                             ELSE IF r.ret > 0 THEN "decode" ELSE mode
                  /\ stream' = [stream EXCEPT !.frames = @ + r.ret \div S,
                                              !.pcm = @ + r.written,
                                              !.finished = FALSE]
                  /\ call' = [Idle EXCEPT !.op = "decode", !.bad = bad,
                                          !.input_size = input_size,
                                          !.output_size = output_size,
                                          !.ret = r.ret, !.written = r.written,
                                          !.output = r.output, !.before = stream,
                                          !.skip = context.decode_skip_leading,
                                          !.broke = r.broke, !.entry = context]

\* bytes that the caller of aptx_decode_sync passes at a time from a long stream
SyncChunk == 61

\* the input with one more byte before input[k]
Injected(input, k, byte) == SubSeq(input, 1, k) \o <<byte>> \o SubSeq(input, k + 1, Len(input))

\* bytes of a stream that is no aptX stream
GarbageBytes == 48

\* Bytes no codeword pair of which passes the parity check of a decoder that
\* was reset: the parity bits of the two codewords (bit 5 of the first byte
\* of an aptX codeword, bit 3 of that of an aptX HD codeword) differ, at
\* every offset.
GarbageStream(hd) ==
    Tuple([i \in 1 .. GarbageBytes |->
             IF hd # 0 THEN (IF ((i - 1) \div 3) % 2 = 1 THEN 8 ELSE 0)
             ELSE (IF ((i - 1) \div 2) % 2 = 1 THEN 32 ELSE 0)])

\* What aptx_decode_sync is fed: the stream of the decoder as it is, or with
\* the parity bit of its third codeword pair inverted, or the long stream
\* with a byte more at offset 92, or at offset 96, or bytes that are no
\* stream.
SyncStreams ==
    Only({Tuple([i \in 1 .. 2 |->
                   [valid |-> all[i],
                    parity |-> Corrupt(all[i], SampleSize(i - 1), 3),
                    injected92 |-> Injected(all[i + 2], 92, 165),
                    injected96 |-> Injected(all[i + 2], 96, 165),
                    garbage |-> GarbageStream(i - 1)]]) :
          all \in {DecodeStreams}})

SyncStream(hd, kind) == SyncStreams[hd + 1][kind]

SyncKinds ==
    {"valid", "parity", "injected92", "injected96"}

\* The sizes of the calls that a stream comes in, the last call of a stream
\* passing what is left: the short streams come a byte at a time, or two, or
\* a byte less than a codeword pair, or a pair, or a byte more, or three
\* pairs and two bytes; the long ones SyncChunk bytes at a time, or whole.
SyncChunks(kind, S) ==
    IF kind \in {"valid", "parity"} THEN {1, 2, S - 1, S, S + 1, 3 * S + 2}
    ELSE {SyncChunk, S * (SyncFrames + FlushFrames) + 1}

\* "output buffer must have space for decoding whole input buffer plus space
\* for one additional decoded sample (24 bytes)"
SyncOutputSize(input_size, S) == 24 * (input_size \div S) + 24

\* the output sizes of a call: the documented one, and for the valid stream
\* room for one frame only
SyncOutputSizes(kind, input_size, S) ==
    IF kind = "valid" /\ input_size > S
    THEN {SyncOutputSize(input_size, S), 24}
    ELSE {SyncOutputSize(input_size, S)}

\* The caller offers the next bytes of a stream, chunk of them or what is
\* left, with room for the output as documented or, when room is "none",
\* with no room at all; a stream goes on in calls of the same size after
\* calls with the documented output size, or in calls with no room.
DecodeSyncGiven(kind, chunk, room) ==
    /\ call.op = "idle"
    /\ mode \in {"fresh", "sync"}
    /\ mode = "sync" =>
           /\ kind = stream.kind
           /\ room = "none" \/ (chunk = stream.chunk /\ ~stream.starved)
    /\ \E all \in {SyncStream(context.hd, kind)} :
         \E input_size \in {IF Len(all) - stream.fed < chunk
                            THEN Len(all) - stream.fed ELSE chunk} :
           /\ input_size > 0
           /\ \E output_size \in IF room = "none" THEN {0}
                                  ELSE SyncOutputSizes(kind, input_size,
                                                       SampleSize(context.hd)) :
              \E r \in {aptx_decode_sync(context,
                                         SubSeq(all, stream.fed + 1,
                                                stream.fed + input_size),
                                         input_size, output_size)} :
                  /\ context' = r.ctx
                  /\ mode' = IF r.endless THEN "endless"
                             ELSE IF r.overrun THEN "overrun" ELSE "sync"
                  /\ stream' = [stream EXCEPT
                                  !.kind = kind,
                                  !.chunk = chunk,
                                  !.fed = @ + r.ret,
                                  !.pcm = @ + r.written,
                                  !.starved = @ \/ output_size
                                                   < SyncOutputSize(input_size,
                                                         SampleSize(context.hd)),
                                  !.resynced = @ \/ (r.synced = 1 /\ r.dropped >= 1),
                                  !.dropped = @ + r.dropped,
                                  !.finished = FALSE]
                  /\ call' = [Idle EXCEPT !.op = "decode_sync", !.kind = kind,
                                          !.input_size = input_size,
                                          !.output_size = output_size,
                                          !.ret = r.ret, !.written = r.written,
                                          !.output = r.output, !.before = stream,
                                          !.skip = context.decode_skip_leading,
                                          !.synced = r.synced,
                                          !.dropped = r.dropped,
                                          !.overrun = r.overrun,
                                          !.broke = r.broke,
                                          !.entry = context]

DecodeSync(kind, chunk) == DecodeSyncGiven(kind, chunk, "documented")

\* The caller ends the stream.
DecodeSyncFinish ==
    /\ call.op = "idle"
    /\ mode \in {"fresh", "sync"}
    /\ \E r \in {aptx_decode_sync_finish(context)} :
           /\ context' = r.ctx
           /\ mode' = "fresh"
           /\ stream' = NoStream
           /\ call' = [Idle EXCEPT !.op = "decode_sync_finish", !.ret = r.ret,
                                   !.before = stream, !.entry = context]

DecodeSyncCalls ==
    \E kind \in SyncKinds :
        \E chunk \in SyncChunks(kind, SampleSize(context.hd)) :
            DecodeSync(kind, chunk)

EncodeCalls ==
    \E kind \in PcmKinds, input_size \in EncodeInputSizes,
       output_size \in EncodeOutputSizes(SampleSize(context.hd)) :
        Encode(kind, input_size, output_size)

EncodeFinishCalls ==
    \E output_size \in FlushOutputSizes(SampleSize(context.hd)) : EncodeFinish(output_size)

DecodeCalls ==
    \E input_size \in DecodeInputSizes(SampleSize(context.hd)),
       output_size \in DecodeOutputSizes :
        \E bad \in {0, 1, input_size \div SampleSize(context.hd)} :
            Decode(input_size, output_size, bad)

Next ==
    \/ EncodeCalls
    \/ EncodeFinishCalls
    \/ DecodeCalls
    \/ DecodeSyncCalls
    \/ DecodeSyncFinish
    \/ Reset
    \/ Return

Spec == Init /\ [][Next]_vars

\* a context that only encodes
NextEncoder == EncodeCalls \/ EncodeFinishCalls \/ Reset \/ Return

EncoderSpec == Init /\ [][NextEncoder]_vars

\* a context that only decodes
NextDecoder == DecodeCalls \/ Reset \/ Return

DecoderSpec == Init /\ [][NextDecoder]_vars

\* a context that only decodes with aptx_decode_sync
NextSync == DecodeSyncCalls \/ DecodeSyncFinish \/ Reset \/ Return

SyncSpec == Init /\ [][NextSync]_vars

(***************************************************************************)
(* Properties of the encoder.                                              *)
(***************************************************************************)
Min(a, b) == IF a <= b THEN a ELSE b

\* the frames aptx_encode has room for in both buffers
EncodeRoom == Min(call.input_size \div 24, call.output_size \div SampleSize(context.hd))

\* C1: aptx_encode processes n = min(input_size / 24, output_size / S)
\* frames: it returns 24 * n, stores S * n in *written and as many bytes in
\* the output, which is never more than output_size, and the input bytes
\* beyond the last whole frame stay unconsumed.
C1_EncodeProcessesWholeFrames ==
    call.op = "encode" =>
        /\ call.ret = 24 * EncodeRoom
        /\ call.written = SampleSize(context.hd) * EncodeRoom
        /\ Len(call.output) = call.written
        /\ call.written <= call.output_size
        /\ call.input_size - call.ret >= call.input_size % 24
        /\ stream.frames = call.before.frames + EncodeRoom

\* an encode call that the output limits, with a partial frame at the end of
\* the input
C1_Witness ==
    /\ call.op = "encode"
    /\ call.input_size = 24 * 2 + 23
    /\ call.ret = 24
    /\ call.written = SampleSize(context.hd)
    /\ call.output_size = 2 * SampleSize(context.hd) - 1

\* the codeword pairs of the flush emitted up to and with this call
FlushEmitted == call.before.flushed + call.written \div SampleSize(context.hd)

\* C2: the calls of aptx_encode_finish emit FlushFrames (23) codeword pairs
\* in total, after the M of the PCM frames: a call that leaves fewer than 23
\* emitted returns 0 and leaves the context as the loop left it, the call
\* that emits the 23rd returns nonzero and leaves a reset context.
C2_FlushEmitsLatencyFrames ==
    call.op = "encode_finish" =>
        /\ call.written % SampleSize(context.hd) = 0
        /\ call.written <= call.output_size
        /\ FlushEmitted <= FlushFrames
        /\ (call.ret = 0) <=> (FlushEmitted < FlushFrames)
        /\ call.ret = 0 =>
               /\ context.encode_remaining = FlushFrames - FlushEmitted
               /\ context.sync_idx = (call.before.frames
                                      + call.written \div SampleSize(context.hd)) % 8
               /\ stream.flushed = FlushEmitted
               /\ stream.frames = (call.before.frames - call.before.flushed)
                                  + FlushEmitted
        /\ call.ret # 0 =>
               /\ context = aptx_init(context.hd, zero_context)
               /\ FlushEmitted = 23

\* the call that ends a flush spread over several calls, after PCM frames
C2_Witness ==
    /\ call.op = "encode_finish"
    /\ call.ret # 0
    /\ call.before.flushed = FlushStep
    /\ call.before.frames = MaxFrames + FlushStep
    /\ call.written = (FlushFrames - FlushStep) * SampleSize(context.hd)

Max(a, b) == IF a >= b THEN a ELSE b

\* the PCM bytes of a stream of n codeword pairs
DecodedBytes(n) == IF n >= FlushFrames THEN 24 * (n - FlushFrames) + 12 ELSE 0

\* the bytes the caller passes in the call that leads to the next state
DecodeInputOf(c, from) ==
    Corrupt(SubSeq(DecodeStream(context.hd), from * SampleSize(context.hd) + 1,
                   from * SampleSize(context.hd) + c.input_size),
            SampleSize(context.hd), c.bad)

\* C4: from a fresh context aptx_decode writes nothing for the first 22
\* codeword pairs of a valid stream, samples 2 and 3 of both channels for the
\* 23rd and all four samples (24 bytes) for each later one, however the
\* stream is cut into calls: after N codeword pairs the stream has given
\* 24 * (N - 23) + 12 bytes when N >= 23 and none when N < 23.
C4_DecodeLatency ==
    [][call'.op = "decode" =>
          /\ stream'.pcm = DecodedBytes(stream'.frames)
          /\ call'.written = DecodedBytes(stream'.frames) - DecodedBytes(stream.frames)
          /\ Len(call'.output) = call'.written
          /\ (stream.frames = FlushFrames - 1 /\ call'.ret = SampleSize(context.hd)
              /\ call'.bad = 0) =>
                 call'.output =
                     frame_bytes(aptx_decode_samples(context,
                                     SubSeq(DecodeInputOf(call', stream.frames), 1,
                                            SampleSize(context.hd))).samples, 2)
          /\ (stream.frames < FlushFrames - 1 /\ stream'.frames > FlushFrames) =>
                 call'.written = 12 + 24 * (stream'.frames - FlushFrames)
      ]_vars

\* a call that takes the stream from before the end of the latency to after
\* it, and one that decodes the 23rd codeword pair alone
C4_Witness ==
    /\ call.op = "decode"
    /\ call.before.frames = FlushFrames - 1
    /\ call.ret = SampleSize(context.hd)
    /\ call.written = 12
    /\ stream.frames = FlushFrames

\* C5: at a codeword pair that fails the parity check aptx_decode stops: it
\* returns S times the number of codeword pairs before the failing one, which
\* is less than input_size, writes the PCM of those only, and
\* decode_skip_leading has been decremented for those only.
C5_DecodeStopsAtParityFailure ==
    (call.op = "decode" /\ call.broke) =>
        /\ call.bad > 0
        /\ call.ret = SampleSize(context.hd) * (call.bad - 1)
        /\ call.ret < call.input_size
        /\ call.written = DecodedBytes(call.before.frames + call.bad - 1)
                          - DecodedBytes(call.before.frames)
        /\ Len(call.output) = call.written
        /\ context.decode_skip_leading = Max(0, call.skip - (call.bad - 1))
        /\ stream.frames = call.before.frames + call.bad - 1

\* the second codeword pair of a call fails while the latency has one more
\* codeword pair to go
C5_Witness ==
    /\ call.op = "decode"
    /\ call.broke
    /\ call.bad = 2
    /\ call.skip = 2
    /\ context.decode_skip_leading = 1
    /\ call.ret = SampleSize(context.hd)

\* C6 as the specification states it: aptx_decode stores no more than
\* output_size bytes, whatever output_size and decode_skip_leading are.
C6_DecodeWritesWithinOutput ==
    call.op = "decode" => call.written <= call.output_size


\* the parity bit that codeword pair j (from 0) of the output carries for a
\* channel: bit 13 of the 16 bit word, bit 19 of the 24 bit word
ParityBit(output, S, j, channel) ==
    (output[j * S + (channel - 1) * (S \div 2) + 1] \div (IF S = 6 THEN 8 ELSE 32)) % 2

\* what the parities of the two channels add up to in frame i since the reset
SyncParity(i) == IF i % 8 = 7 THEN 1 ELSE 0

\* the call ended the stream, and the context is reset
FlushCompleted == call.op = "encode_finish" /\ call.ret # 0

\* C7: in frame i (from 0, counted from the last reset) that aptx_encode or
\* aptx_encode_finish emits, the parities of the quantized samples of LEFT
\* and of RIGHT as they are packed differ exactly when i mod 8 = 7, whatever
\* the PCM is, and sync_idx has advanced by one modulo 8 with each frame.
C7_SyncParityEveryEighthFrame ==
    call.op \in {"encode", "encode_finish"} =>
        \E S \in {SampleSize(context.hd)} : \E n \in {call.written \div S} :
            /\ \A j \in 0 .. n - 1 :
                   (ParityBit(call.output, S, j, LEFT)
                    + ParityBit(call.output, S, j, RIGHT)) % 2
                   = SyncParity(call.before.frames + j)
            /\ (n > 0 /\ ~FlushCompleted) =>
                   /\ aptx_quantized_parity(context.channels[LEFT])
                      = ParityBit(call.output, S, n - 1, LEFT)
                   /\ aptx_quantized_parity(context.channels[RIGHT])
                      = ParityBit(call.output, S, n - 1, RIGHT)
                   /\ (aptx_quantized_parity(context.channels[LEFT])
                       + aptx_quantized_parity(context.channels[RIGHT])) % 2
                      = SyncParity(call.before.frames + n - 1)
            /\ context.sync_idx =
                   IF FlushCompleted THEN 0 ELSE (call.before.frames + n) % 8

\* a flush call that emits the frames 10 .. 24 of a stream, two of them
\* (15 and 23) with differing parities
C7_Witness ==
    /\ call.op = "encode_finish"
    /\ call.before.frames = MaxFrames + FlushStep
    /\ call.written = (FlushFrames - FlushStep) * SampleSize(context.hd)
    /\ (ParityBit(call.output, SampleSize(context.hd), 5, LEFT)
        + ParityBit(call.output, SampleSize(context.hd), 5, RIGHT)) % 2 = 1


(***************************************************************************)
(* Packing and unpacking alone: a channel with quantized samples as wide   *)
(* as the fields of the codeword is packed, and the codeword is unpacked   *)
(* into the other channel, whose dither_parity is the same.                *)
(***************************************************************************)
\* the widths of the four fields of a codeword, as sign_extend is given them
\* in aptx_unpack_codeword and aptxhd_unpack_codeword
FieldBits(hd) == IF hd # 0 THEN <<9, 6, 4, 5>> ELSE <<7, 4, 2, 3>>

\* the values of a signed field: all of them for the narrow fields, the ends
\* and the values about zero for the wide ones
FieldValues(bits) ==
    IF bits <= 5 THEN -Pow2(bits - 1) .. Pow2(bits - 1) - 1
    ELSE {-Pow2(bits - 1), 1 - Pow2(bits - 1), -2, -1, 0, 1, Pow2(bits - 1) - 2,
          Pow2(bits - 1) - 1}

\* the ends of a signed field and the values about zero
FieldEnds(bits) == {-Pow2(bits - 1), -1, 0, Pow2(bits - 1) - 1}

PackChannels(hd) ==
    {<<q0, q1, q2, q3, dither_parity>> :
        q0 \in FieldValues(FieldBits(hd)[1]),
        q1 \in FieldEnds(FieldBits(hd)[2]),
        q2 \in FieldEnds(FieldBits(hd)[3]),
        q3 \in FieldValues(FieldBits(hd)[4]),
        dither_parity \in {0, 1}}

PackInit ==
    \E hd \in {0, 1} : \E q \in PackChannels(hd) :
        /\ context = [aptx_init(hd, zero_context) EXCEPT
                        !.channels[LEFT].quantize[1].quantized_sample = q[1],
                        !.channels[LEFT].quantize[2].quantized_sample = q[2],
                        !.channels[LEFT].quantize[3].quantized_sample = q[3],
                        !.channels[LEFT].quantize[4].quantized_sample = q[4],
                        !.channels[LEFT].dither_parity = q[5],
                        !.channels[RIGHT].dither_parity = q[5]]
        /\ mode = "pack"
        /\ stream = NoStream
        /\ call = [Idle EXCEPT !.op = "init"]

\* the codeword of LEFT, as aptx_encode_samples has it packed
Pack ==
    /\ mode = "pack"
    /\ call.op = "init"
    /\ call' = [Idle EXCEPT !.op = "pack",
                            !.ret = IF context.hd # 0
                                    THEN aptxhd_pack_codeword(context.channels[LEFT])
                                    ELSE aptx_pack_codeword(context.channels[LEFT])]
    /\ UNCHANGED <<context, mode, stream>>

\* the codeword unpacked into RIGHT, as aptx_decode_samples has it unpacked
Unpack ==
    /\ mode = "pack"
    /\ call.op = "pack"
    /\ context' = [context EXCEPT !.channels[RIGHT] =
                      IF context.hd # 0
                      THEN aptxhd_unpack_codeword(context.channels[RIGHT], call.ret)
                      ELSE aptx_unpack_codeword(context.channels[RIGHT], call.ret)]
    /\ call' = [call EXCEPT !.op = "unpack"]
    /\ UNCHANGED <<mode, stream>>

NextPack == Pack \/ Unpack

PackSpec == PackInit /\ [][NextPack]_vars

QuantizedSamples(channel) ==
    <<channel.quantize[1].quantized_sample, channel.quantize[2].quantized_sample,
      channel.quantize[3].quantized_sample, channel.quantize[4].quantized_sample>>

\* C8: for aptX and aptX HD, a channel whose four quantized samples lie in
\* the signed ranges of the fields (7, 4, 2, 3 and 9, 6, 4, 5 bits), with
\* dither_parity 0 or 1, is packed into a codeword that unpacks, in a channel
\* with the same dither_parity, to the same four quantized samples: the low
\* bit of the sample of sub-band 3, which the parity bit replaces in the
\* codeword, is recovered.
C8_UnpackRecoversPackedSamples ==
    call.op = "unpack" =>
        /\ call.ret \in 0 .. Pow2(IF context.hd # 0 THEN 24 ELSE 16) - 1
        /\ QuantizedSamples(context.channels[RIGHT])
           = QuantizedSamples(context.channels[LEFT])
        /\ (call.ret \div Pow2(IF context.hd # 0 THEN 19 ELSE 13)) % 2
           = aptx_quantized_parity(context.channels[LEFT])

\* a codeword whose parity bit is not the low bit of the sample of sub-band 3
C8_Witness ==
    /\ call.op = "unpack"
    /\ context.channels[LEFT].dither_parity = 1
    /\ context.channels[LEFT].quantize[4].quantized_sample % 2 = 1
    /\ (call.ret \div Pow2(IF context.hd # 0 THEN 19 ELSE 13)) % 2 = 0
    /\ context.channels[RIGHT].quantize[4].quantized_sample % 2 = 1
    /\ context.channels[LEFT].quantize[1].quantized_sample = -Pow2(FieldBits(context.hd)[1] - 1)


\* the first codeword pair of silence, as bytes: 4b bf 4b bf, 73 be ff 73 be ff
SilenceCodewords(hd) ==
    IF hd # 0 THEN <<115, 190, 255, 115, 190, 255>> ELSE <<75, 191, 75, 191>>

\* C10: the first codeword pair that a reset context emits for PCM that is
\* all zero is 4b bf 4b bf for aptX and 73 be ff 73 be ff for aptX HD; every
\* sub-band has quantized to the highest value of its field, and the
\* insertion of the sync parity has changed none.
C10_FirstCodewordOfSilence ==
    (/\ call.op \in {"encode", "encode_finish"}
     /\ call.op = "encode" => call.kind = "silence"
     /\ call.before.frames = 0
     /\ call.written > 0) =>
        /\ SubSeq(call.output, 1, SampleSize(context.hd)) = SilenceCodewords(context.hd)
        /\ call.written = SampleSize(context.hd) =>
               \A channel \in {LEFT, RIGHT} : \A subband \in 1 .. NB_SUBBANDS :
                   context.channels[channel].quantize[subband].quantized_sample
                   = Pow2(FieldBits(context.hd)[subband] - 1) - 1

\* one frame of silence encoded at the start of a stream
C10_Witness ==
    /\ call.op = "encode"
    /\ call.kind = "silence"
    /\ call.before.frames = 0
    /\ call.written = SampleSize(context.hd)
    /\ context.sync_idx = 1
    /\ call.output = SilenceCodewords(context.hd)

(***************************************************************************)
(* Properties of aptx_reset.                                               *)
(***************************************************************************)

\* every field of the context but hd is zero, except prev_sign = +1 in the
\* predictors of all subbands of both channels and
\* encode_remaining = decode_skip_leading = 23
InitialState(ctx) ==
    /\ ctx.decode_sync_packets = 0
    /\ ctx.decode_dropped = 0
    /\ ctx.sync_idx = 0
    /\ ctx.encode_remaining = 23
    /\ ctx.decode_skip_leading = 23
    /\ ctx.decode_sync_buffer_len = 0
    /\ \A i \in 1 .. 6 : ctx.decode_sync_buffer[i] = 0
    /\ \A channel \in 1 .. NB_CHANNELS :
           /\ \A subband \in 1 .. NB_SUBBANDS :
                  /\ ctx.channels[channel].prediction[subband].prev_sign = <<1, 1>>
                  /\ [ctx.channels[channel].prediction[subband]
                        EXCEPT !.prev_sign = <<0, 0>>] = zero_prediction
           /\ [ctx.channels[channel]
                 EXCEPT !.prediction = zero_channel.prediction] = zero_channel

\* C9: after aptx_reset, whatever calls came before it, the context is what
\* aptx_init makes for the same hd: hd kept, every other field zero except
\* prev_sign = +1 in all 8 predictors and encode_remaining =
\* decode_skip_leading = 23; and the bytes that the first aptx_encode call of
\* a stream produces are those that a context from aptx_init produces.
C9_ResetRestoresInitialState ==
    /\ call.op = "reset" =>
           /\ context.hd = call.entry.hd
           /\ context = aptx_init(call.entry.hd, zero_context)
           /\ InitialState(context)
    /\ (call.op = "encode" /\ call.before.frames = 0) =>
           call.output = aptx_encode(aptx_init(context.hd, zero_context),
                                     PcmInput(call.kind, call.input_size),
                                     call.output_size).output

\* aptx_reset of a context that aptx_decode_sync left without
\* synchronization, with dropped bytes counted and bytes in its cache
C9_Witness ==
    /\ call.op = "reset"
    /\ call.before.fed > 0
    /\ call.entry.decode_dropped > 0
    /\ call.entry.decode_sync_buffer_len > 0
    /\ call.entry.sync_idx # 0

(***************************************************************************)
(* Properties of aptx_decode_sync and aptx_decode_sync_finish.             *)
(***************************************************************************)

\* the output buffer of the call had the documented size
Documented ==
    call.output_size >= SyncOutputSize(call.input_size, SampleSize(context.hd))

\* C11: a call of aptx_decode_sync whose output buffer has room for decoding
\* the whole input and for one more frame of 24 bytes returns input_size,
\* whatever the input holds, and stores no more than output_size bytes.
C11_DecodeSyncTakesWholeInput ==
    (call.op = "decode_sync" /\ Documented) =>
        /\ call.ret = call.input_size
        /\ call.written <= call.output_size
        /\ Len(call.output) = call.written

\* a call that decoded bytes, dropped bytes and left bytes in the cache
C11_Witness ==
    /\ call.op = "decode_sync"
    /\ Documented
    /\ call.ret = call.input_size
    /\ call.written > 0
    /\ context.decode_dropped > call.entry.decode_dropped
    /\ context.decode_sync_buffer_len > 0

\* C12: while every call of aptx_decode_sync has the documented output size,
\* decode_sync_buffer_len is at most S - 1 at every return, 3 for aptX and 5
\* for aptX HD, and no byte was stored beyond the cache.
C12_CacheHoldsLessThanCodeword ==
    (mode = "sync" /\ ~stream.starved) =>
        /\ context.decode_sync_buffer_len <= SampleSize(context.hd) - 1
        /\ context.decode_sync_buffer_len <= IF context.hd = 1 THEN 5 ELSE 3
        /\ ~call.overrun

\* a call that found the cache of an unsynchronized aptX HD decoder full and
\* left it full
C12_Witness ==
    /\ call.op = "decode_sync"
    /\ context.hd = 1
    /\ call.entry.decode_sync_buffer_len = 5
    /\ context.decode_sync_buffer_len = 5
    /\ context.decode_dropped > 0

\* C13 as the specification states it: at the end of every call of
\* aptx_decode_sync *synced is 1 when nothing is pending after a parity
\* failure, decode_dropped = 0, and 0 otherwise, also when the input of the
\* call was shorter than a codeword pair and went to the cache.
C13_SyncedIffNothingDropped ==
    call.op = "decode_sync" =>
        (call.synced = 1 <=> context.decode_dropped = 0)

\* C14: decode_sync_packets is in 0 .. 22 between calls and 0 while nothing is
\* dropped; what is reported in *dropped holds the 23 codeword pairs decoded
\* since the last failure and at least one byte before them; decode_dropped
\* is cleared only when it is reported; a failure sets decode_sync_packets
\* to 0 and adds 1 to decode_dropped.
C14_DroppedReportedAfterLatency ==
    /\ context.decode_sync_packets \in 0 .. FlushFrames - 1
    /\ context.decode_dropped = 0 => context.decode_sync_packets = 0
    /\ decode_sync_failed(context).decode_sync_packets = 0
    /\ decode_sync_failed(context).decode_dropped = context.decode_dropped + 1
    /\ call.op = "decode_sync" =>
           /\ call.dropped > 0 =>
                  call.dropped >= FlushFrames * SampleSize(context.hd) + 1
           /\ call.dropped = 0 =>
                  context.decode_dropped >= call.entry.decode_dropped

\* the call in which the 23rd codeword pair after the byte injected at offset
\* 96 is decoded reports that byte and the 92 bytes of the 23 pairs
C14_Witness ==
    /\ call.op = "decode_sync"
    /\ call.kind = "injected96"
    /\ call.input_size < 96
    /\ call.entry.decode_dropped > 0
    /\ call.entry.decode_sync_packets > 0
    /\ call.dropped = 93
    /\ context.decode_dropped = 0
    /\ context.decode_sync_packets = 0

\* the input of the call
SyncInputOf(c) ==
    SubSeq(SyncStream(c.entry.hd, c.kind), c.before.fed + 1,
           c.before.fed + c.input_size)

\* ctx after a failure at a codeword pair whose bytes after the first are
\* left to the cache: the state of aptx_reset but for the cache and
\* decode_dropped, which is one more
FailedOnce(ctx, cache) ==
    [aptx_reset(ctx) EXCEPT
       !.decode_sync_buffer = cache,
       !.decode_sync_buffer_len = Len(cache),
       !.decode_dropped = ctx.decode_dropped + 1,
       !.decode_sync_packets = 0]

C16_OutputShortageIsFlowControl ==
    (call.op = "decode_sync" /\ call.kind = "valid") =>
        /\ context.decode_dropped = 0
        /\ call.dropped = 0
        /\ context.decode_skip_leading <= call.entry.decode_skip_leading
        /\ call.synced = 0 => call.written = 0

\* C17: aptx_decode_sync_finish returns decode_sync_buffer_len as it was on
\* entry, which for a stream without failure that ended K bytes into a
\* codeword pair is K, and leaves the context as aptx_init makes it for its hd.
C17_FinishReturnsCachedBytes ==
    call.op = "decode_sync_finish" =>
        /\ call.ret = call.entry.decode_sync_buffer_len
        /\ (call.before.kind = "valid" /\ ~call.before.starved) =>
               call.ret = call.before.fed % SampleSize(context.hd)
        /\ context = aptx_init(call.entry.hd, zero_context)
        /\ InitialState(context)

\* an aptX HD stream ended five bytes into a codeword pair
C17_Witness ==
    /\ call.op = "decode_sync_finish"
    /\ call.before.kind = "valid"
    /\ call.entry.hd = 1
    /\ call.before.fed > 6
    /\ call.ret = 5

\* the whole stream has been fed
SyncStreamFed ==
    /\ mode = "sync"
    /\ ~stream.starved
    /\ stream.fed = Len(SyncStream(context.hd, stream.kind))

\* C18 as the specification states it: when a valid stream with one more byte
\* at an offset k >= 92, followed by more than twice 23 valid codeword
\* pairs, has been fed to aptx_decode_sync, whole or in pieces, a call has
\* returned synced = 1 together with dropped >= 1.
C18_ResyncAfterInjectedByte ==
    (SyncStreamFed /\ stream.kind \in {"injected92", "injected96"}) =>
        stream.resynced

\* the PCM of the valid streams, for hd = 0 and hd = 1: what one call of
\* aptx_decode on a context from aptx_init makes of the whole stream
DecodedStreams ==
    Tuple([i \in 1 .. 2 |->
             aptx_decode(aptx_init(i - 1, zero_context), DecodeStream(i - 1),
                         Len(DecodeStream(i - 1)),
                         24 * (Len(DecodeStream(i - 1)) \div SampleSize(i - 1))).output])

\* C19: the valid stream fed to aptx_decode_sync in calls of any of the sizes,
\* each with the documented output size, gives call by call the bytes that
\* one call of aptx_decode on a context from aptx_init gives for the whole
\* stream, as far as whole codeword pairs have been fed, and no call reports
\* dropped bytes.
C19_DecodeSyncEqualsDecode ==
    (call.op = "decode_sync" /\ call.kind = "valid" /\ ~stream.starved) =>
        /\ call.dropped = 0
        /\ context.decode_dropped = 0
        /\ call.ret = call.input_size
        /\ stream.pcm = DecodedBytes(stream.fed \div SampleSize(context.hd))
        /\ call.output = SubSeq(DecodedStreams[context.hd + 1],
                                call.before.pcm + 1, stream.pcm)
        /\ stream.fed = Len(DecodeStream(context.hd)) =>
               stream.pcm = Len(DecodedStreams[context.hd + 1])

\* the call that passes the last byte of a stream that came a byte at a time
\* returns the last frame
C19_Witness ==
    /\ call.op = "decode_sync"
    /\ call.kind = "valid"
    /\ call.input_size = 1
    /\ stream.fed = Len(DecodeStream(context.hd))
    /\ call.written = 24
    /\ stream.pcm = 60

(***************************************************************************)
(* Properties of aptx_decode_samples.                                      *)
(***************************************************************************)

\* C20 as the specification states it: a frame that fails the parity check is
\* not synthesized, so when the first codeword pair of an aptx_decode call
\* fails, the QMF filter signal buffers and positions of both channels are
\* what they were before the call.
C20_ParityFailureLeavesQmf ==
    (call.op = "decode" /\ call.broke /\ call.bad = 1) =>
        \A channel \in 1 .. NB_CHANNELS :
            context.channels[channel].qmf = call.entry.channels[channel].qmf

(***************************************************************************)
(* An encoder and a decoder side by side: each frame the encoder makes is  *)
(* given to the decoder.  context is the encoder's context and             *)
(* call.decoder the decoder's.                                             *)
(***************************************************************************)
\* frames encoded and decoded side by side: more than the 8 of a sync period
LockFrames == 9

LockInit ==
    \E hd \in {0, 1} :
        /\ context = aptx_init(hd, zero_context)
        /\ mode = "lockstep"
        /\ stream = NoStream
        /\ call = [op |-> "init", decoder |-> aptx_init(hd, zero_context),
                   codewords |-> <<>>, ret |-> 0]

\* one pass of the loop of aptx_encode on a frame of PCM, then one pass of the
\* loop of aptx_decode on the codewords it stored
LockFrame(kind) ==
    /\ mode = "lockstep"
    /\ stream.frames < LockFrames
    /\ \E e \in {aptx_encode_samples(context, pcm_frame(PcmInput(kind, 24), 0))} :
       \E d \in {aptx_decode_samples(call.decoder, e.output)} :
           /\ context' = e.ctx
           /\ call' = [op |-> "frame", decoder |-> d.ctx, codewords |-> e.output,
                       ret |-> d.ret]
    /\ stream' = [stream EXCEPT !.frames = @ + 1, !.kind = kind]
    /\ UNCHANGED mode

NextLock == \E kind \in PcmKinds : LockFrame(kind)

LockSpec == LockInit /\ [][NextLock]_vars

\* the state that the encoder and the decoder both keep, of one channel
SharedState(channel) ==
    [codeword_history |-> channel.codeword_history,
     dither |-> channel.dither,
     dither_parity |-> channel.dither_parity,
     quantized |-> QuantizedSamples(channel),
     invert_quantize |-> channel.invert_quantize,
     prediction |-> channel.prediction]

\* C21: an encoder and a decoder that start from aptx_init with the same hd,
\* the decoder given each codeword pair the encoder stores, have after every
\* frame the same sync_idx and, in each channel, the same codeword_history,
\* dither, dither_parity, quantized samples, invert_quantize and prediction;
\* and the decoder's parity check passes.
C21_EncoderDecoderLockstep ==
    mode = "lockstep" =>
        /\ call.decoder.sync_idx = context.sync_idx
        /\ \A channel \in 1 .. NB_CHANNELS :
               SharedState(call.decoder.channels[channel])
               = SharedState(context.channels[channel])
        /\ call.ret = 0

\* the ninth frame, after a sync period, one whose sync insertion replaced a
\* quantized sample by its parity change
C21_Witness ==
    /\ mode = "lockstep"
    /\ stream.frames = LockFrames
    /\ context.sync_idx = 1
    /\ \E subband \in 1 .. NB_SUBBANDS :
           context.channels[RIGHT].quantize[subband].quantized_sample
           = context.channels[RIGHT].quantize[subband].quantized_sample_parity_change
    /\ context.channels[LEFT].codeword_history # 0
    /\ context.channels[LEFT].prediction[1].predicted_sample # 0

(***************************************************************************)
(* aptx_insert_sync on the quantized samples of one frame.                 *)
(***************************************************************************)
\* the quantization errors of the eight samples of a frame
InsertErrors == 0 .. 2

\* the channels of a frame as aptx_encode_channel leaves them: in channel c
\* and sub-band s the error e[c][s], a quantized sample and its parity change
InsertChannels(e, q) ==
    Tuple([c \in 1 .. NB_CHANNELS |->
       [zero_channel EXCEPT
          !.quantize =
              Tuple([s \in 1 .. NB_SUBBANDS |->
                 [quantized_sample |-> IF c = LEFT /\ s = 1 THEN q ELSE 2 * s - 3 * c,
                  quantized_sample_parity_change |->
                      (IF c = LEFT /\ s = 1 THEN q ELSE 2 * s - 3 * c) - 1,
                  error |-> e[c][s]]])]])

InsertInit ==
    \E e \in [1 .. NB_CHANNELS -> [1 .. NB_SUBBANDS -> InsertErrors]] :
    \E q \in {4, 5} : \E sync_idx \in {0, 7} :
        /\ context = [aptx_init(0, zero_context) EXCEPT
                        !.channels = InsertChannels(e, q),
                        !.sync_idx = sync_idx]
        /\ mode = "insert"
        /\ stream = NoStream
        /\ call = [Idle EXCEPT !.op = "init"]

\* aptx_insert_sync(c->channels, &c->sync_idx) of aptx_encode_samples
InsertSync ==
    /\ mode = "insert"
    /\ call.op = "init"
    /\ \E r \in {aptx_insert_sync(context.channels, context.sync_idx)} :
           context' = [context EXCEPT !.channels = r.channels,
                                      !.sync_idx = r.sync_idx]
    /\ call' = [Idle EXCEPT !.op = "insert_sync", !.entry = context]
    /\ UNCHANGED <<mode, stream>>

NextInsert == InsertSync

InsertSpec == InsertInit /\ [][NextInsert]_vars

\* the pairs <<channel, sub-band>> in the order of the scan: RIGHT then LEFT,
\* in each the sub-bands 1, 2, 0, 3 (here numbered from 1)
ScanOrder ==
    <<<<RIGHT, 2>>, <<RIGHT, 3>>, <<RIGHT, 1>>, <<RIGHT, 4>>,
      <<LEFT, 2>>, <<LEFT, 3>>, <<LEFT, 1>>, <<LEFT, 4>>>>

ErrorAt(channels, pair) == channels[pair[1]].quantize[pair[2]].error

\* the first pair of the scan order whose error is the least
FirstMinimum(channels) ==
    ScanOrder[CHOOSE k \in 1 .. 8 :
                /\ \A j \in 1 .. 8 :
                       ErrorAt(channels, ScanOrder[k]) <= ErrorAt(channels, ScanOrder[j])
                /\ \A j \in 1 .. k - 1 :
                       ErrorAt(channels, ScanOrder[j]) > ErrorAt(channels, ScanOrder[k])]

\* the parity that aptx_check_parity compares: that of the two channels
\* against the sync bit of the frame
ParityMismatch(ctx) ==
    (aptx_quantized_parity(ctx.channels[LEFT])
     + aptx_quantized_parity(ctx.channels[RIGHT])
     + (IF ctx.sync_idx = 7 THEN 1 ELSE 0)) % 2 = 1

\* C22: aptx_insert_sync advances sync_idx and, when the parity of the frame
\* is as required, changes nothing else; on a mismatch it stores
\* quantized_sample_parity_change into quantized_sample at one pair of channel
\* and sub-band, the first of the scan order RIGHT {1, 2, 0, 3}, LEFT
\* {1, 2, 0, 3} with the minimal error, and leaves the rest of the channels.
C22_InsertSyncOffsetsFirstMinimum ==
    (mode = "insert" /\ call.op = "insert_sync") =>
        /\ context.sync_idx = (call.entry.sync_idx + 1) % 8
        /\ context = [call.entry EXCEPT
                        !.sync_idx = context.sync_idx,
                        !.channels =
                            IF ParityMismatch(call.entry)
                            THEN [call.entry.channels EXCEPT
                                    ![FirstMinimum(call.entry.channels)[1]]
                                        .quantize[FirstMinimum(call.entry.channels)[2]].quantized_sample =
                                        call.entry.channels[FirstMinimum(call.entry.channels)[1]]
                                            .quantize[FirstMinimum(call.entry.channels)[2]]
                                            .quantized_sample_parity_change]
                            ELSE call.entry.channels]

\* a mismatch with the minimal error at two pairs, the first of them in LEFT
C22_Witness ==
    /\ mode = "insert"
    /\ call.op = "insert_sync"
    /\ ParityMismatch(call.entry)
    /\ FirstMinimum(call.entry.channels) = <<LEFT, 3>>
    /\ ErrorAt(call.entry.channels, <<LEFT, 1>>) = ErrorAt(call.entry.channels, <<LEFT, 3>>)
    /\ context.channels[LEFT].quantize[3].quantized_sample
       # call.entry.channels[LEFT].quantize[3].quantized_sample
    /\ call.entry.sync_idx = 7

(***************************************************************************)
(* rshift32 and rshift64 on values about the multiples of half a unit.     *)
(***************************************************************************)
\* the values are k * 2^(shift-1) + d for k in -RoundSpan .. RoundSpan
RoundSpan == 5

\* the shifts of rshift32 that leave 1 << (shift + 1) in an int32_t
RoundShifts32 == 1 .. 29

\* the shifts of rshift64 that the limbs of the model hold
RoundShifts64 == 1 .. 47

\* the inputs of a call: value is k * 2^(shift-1) + d
RoundInit ==
    \E k \in -RoundSpan .. RoundSpan : \E d \in {-1, 0, 1} :
    \E shift \in RoundShifts64 :
        /\ context = zero_context
        /\ mode = "round"
        /\ stream = NoStream
        /\ call = [op |-> "init", value |-> <<k, d>>, shift |-> shift, ret |-> 0]

\* rshift32(value, shift)
Rshift32 ==
    /\ mode = "round"
    /\ call.op = "init"
    /\ call.shift \in RoundShifts32
    /\ \E value \in {call.value[1] * Pow2(call.shift - 1) + call.value[2]} :
           call' = [op |-> "rshift32", value |-> value, shift |-> call.shift,
                    ret |-> rshift32(value, call.shift)]
    /\ UNCHANGED <<context, mode, stream>>

\* rshift64(value, shift), value and result as limbs
Rshift64 ==
    /\ mode = "round"
    /\ call.op = "init"
    /\ \E p \in {I64Pow2(call.shift - 1)} :
       \E value \in {I64Norm(call.value[1] * p[1], call.value[1] * p[2],
                              call.value[1] * p[3] + call.value[2])} :
           call' = [op |-> "rshift64", value |-> value, shift |-> call.shift,
                    ret |-> rshift64(value, call.shift)]
    /\ UNCHANGED <<context, mode, stream>>

NextRound == Rshift32 \/ Rshift64

RoundSpec == RoundInit /\ [][NextRound]_vars

\* ret * 2^shift - value, as limbs, for a call of rshift32 or rshift64
RoundError ==
    IF call.op = "rshift32"
    THEN I64FromInt(call.ret * Pow2(call.shift) - call.value)
    ELSE I64Sub(IF call.shift <= 24
                THEN I64ShlInt(I64ToInt32(call.ret), call.shift)
                ELSE Only({<<x[1] * B24 + x[2], x[3], 0>> :
                           x \in {I64ShlInt(I64ToInt32(call.ret), call.shift - 24)}}),
                call.value)

RoundedToEven ==
    IF call.op = "rshift32" THEN call.ret % 2 = 0 ELSE call.ret[3] % 2 = 0

\* C23: rshift32 and rshift64 return value / 2^shift rounded to the nearest
\* integer, a value halfway between two integers to the even one: the result
\* times 2^shift is at most 2^(shift-1) away from value, and exactly that far
\* only when the result is even.  Checked for the shifts 1 .. 29 of rshift32
\* and 1 .. 47 of rshift64.
C23_RshiftRoundsHalfToEven ==
    call.op \in {"rshift32", "rshift64"} =>
        /\ I64Leq(I64Sub(<<0, 0, 0>>, I64Pow2(call.shift - 1)), RoundError)
        /\ I64Leq(RoundError, I64Pow2(call.shift - 1))
        /\ (\/ RoundError = I64Pow2(call.shift - 1)
            \/ RoundError = I64Sub(<<0, 0, 0>>, I64Pow2(call.shift - 1)))
           => RoundedToEven

\* rshift64 of -1.5 with 32 bits of fraction: halfway between -2 and -1, it
\* goes to the even -2, where rounding the halves up gives -1
C23_Witness ==
    /\ call.op = "rshift64"
    /\ call.shift = 32
    /\ call.value = I64Sub(<<0, 0, 0>>, I64Norm(0, 3 * 128, 0))
    /\ call.ret = I64Sub(<<0, 0, 0>>, <<0, 0, 2>>)
    /\ RoundError = I64Sub(<<0, 0, 0>>, I64Pow2(31))

(***************************************************************************)
(* aptx_decode_samples on codeword pairs of any content, in decoders with  *)
(* different histories.                                                    *)
(***************************************************************************)
\* frames decoded after the start
ParityFrames == 3

\* codeword pairs as bytes: the parity bits of the two codewords are 0 0,
\* 0 1, 1 0 and 1 1, with the other bits clear, set or mixed
ParityInputs(hd) ==
    IF hd # 0
    THEN {<<0, 0, 0, 247, 255, 255>>, <<154, 197, 227, 8, 0, 0>>,
          <<101, 58, 28, 8, 0, 0>>, <<255, 255, 255, 8, 0, 0>>,
          <<8, 0, 0, 0, 0, 0>>, <<0, 0, 0, 101, 58, 28>>}
    ELSE {<<0, 0, 223, 255>>, <<154, 197, 32, 0>>,
          <<101, 58, 223, 255>>, <<255, 255, 32, 0>>,
          <<32, 0, 0, 0>>, <<0, 0, 69, 58>>}

\* a decoder after aptx_init, or after the first frames codewords of a stream
ParityInit ==
    \E hd \in {0, 1} : \E n \in {0, 6} :
        /\ context = aptx_decode(aptx_init(hd, zero_context),
                                 SubSeq(DecodeStream(hd), 1, SampleSize(hd) * n),
                                 SampleSize(hd) * n, 24 * n).ctx
        /\ mode = "parity"
        /\ stream = NoStream
        /\ call = [Idle EXCEPT !.op = "init"]

\* one pass of the loop of aptx_decode: aptx_decode_samples on one pair
DecodeSamples(input) ==
    /\ mode = "parity"
    /\ stream.frames < ParityFrames
    /\ \E d \in {aptx_decode_samples(context, input)} :
           /\ context' = d.ctx
           /\ call' = [Idle EXCEPT !.op = "decode_samples", !.ret = d.ret,
                                   !.output = input, !.entry = context]
    /\ stream' = [stream EXCEPT !.frames = @ + 1]
    /\ UNCHANGED mode

NextParity == \E input \in ParityInputs(context.hd) : DecodeSamples(input)

ParitySpec == ParityInit /\ [][NextParity]_vars

\* the parity bit of codeword `channel` (0 or 1) of a pair given as bytes:
\* bit 13 of a word of 16 bits, bit 19 of a word of 24 bits
WireParity(input, hd, channel) ==
    IF hd # 0 THEN (input[3 * channel + 1] \div 8) % 2
    ELSE (input[2 * channel + 1] \div 32) % 2

\* C24: what aptx_decode_samples returns for a codeword pair is a function
\* of sync_idx and of the parity bits of the two codewords alone (bit 13 of
\* each aptX word, bit 19 of each aptX HD word): it is their sum modulo 2,
\* inverted when sync_idx is 7, whatever the predictor, the dither and the
\* codeword history of the two channels are.
C24_ParityResultFromWireBits ==
    (mode = "parity" /\ call.op = "decode_samples") =>
        call.ret = (WireParity(call.output, context.hd, 0)
                    + WireParity(call.output, context.hd, 1)
                    + (IF call.entry.sync_idx = 7 THEN 1 ELSE 0)) % 2

\* a pair that fails in the eighth frame, in a decoder whose channels differ
\* in dither_parity and whose sample of sub-band 3 had its low bit replaced
C24_Witness ==
    /\ mode = "parity"
    /\ call.op = "decode_samples"
    /\ call.entry.sync_idx = 7
    /\ call.ret = 1
    /\ WireParity(call.output, context.hd, 0) = 1
    /\ WireParity(call.output, context.hd, 1) = 1
    /\ context.channels[LEFT].dither_parity # context.channels[RIGHT].dither_parity
    /\ context.channels[LEFT].quantize[4].quantized_sample % 2 = 0
    /\ call.entry.channels[LEFT].codeword_history
       # call.entry.channels[RIGHT].codeword_history

(***************************************************************************)
(* aptx_decode_sync on bytes that are no stream.                           *)
(***************************************************************************)
\* the bytes come a codeword pair at a time, or a byte more
DropCalls ==
    \E chunk \in {SampleSize(context.hd), SampleSize(context.hd) + 1} :
        DecodeSync("garbage", chunk)

NextDrop == DropCalls \/ DecodeSyncFinish \/ Return

DropSpec == Init /\ [][NextDrop]_vars

\* C25: after every call of aptx_decode_sync of a stream, the bytes reported
\* as dropped in all the calls plus the bytes counted in decode_dropped are
\* at most the bytes the calls consumed.
C25_DroppedAtMostConsumed ==
    (mode = "sync" /\ call.op = "decode_sync") =>
        stream.dropped + context.decode_dropped <= stream.fed

(***************************************************************************)
(* aptx_decode_sync of a caller that runs out of room for the output.      *)
(***************************************************************************)
\* the first call takes the codeword pairs of the latency, or one more, and
\* one byte less than a codeword pair
StarveChunks(S) == {S * FlushFrames + S - 1, S * (FlushFrames + 1) + S - 1}

\* the stream comes as it is, with room for the output
StarveFirst ==
    \E chunk \in StarveChunks(SampleSize(context.hd)) : DecodeSync("valid", chunk)

\* then a byte or two at a time, with no room for the output
Starved ==
    /\ mode = "sync"
    /\ \E chunk \in {1, 2} : DecodeSyncGiven(stream.kind, chunk, "none")

NextStarve == StarveFirst \/ Starved \/ Return

StarveSpec == Init /\ [][NextStarve]_vars

\* C26: at every return of aptx_decode_sync, whatever the room for the
\* output was, the cache holds at most S - 1 bytes and no byte was stored
\* at index 6 of decode_sync_buffer or beyond.
C26_CacheWithinBufferForAnyRoom ==
    call.op = "decode_sync" =>
        /\ context.decode_sync_buffer_len <= SampleSize(context.hd) - 1
        /\ ~call.overrun

\* C27: a call of aptx_decode_sync that returns with *synced = 1 leaves
\* decode_dropped = 0 and decode_sync_packets = 0, and the last aptx_decode
\* of the call did not stop at a codeword pair that fails the parity check.
C27_SyncedMeansNothingPending ==
    (call.op = "decode_sync" /\ call.synced = 1) =>
        /\ context.decode_dropped = 0
        /\ context.decode_sync_packets = 0
        /\ ~call.broke

\* a call in which a codeword pair failed and which returns synchronized,
\* the dropped bytes reported
C27_Witness ==
    /\ call.op = "decode_sync"
    /\ call.synced = 1
    /\ call.dropped > 0
    /\ call.entry.decode_dropped = 0
    /\ call.ret = call.input_size
    /\ call.written > 0
    /\ call.kind = "injected96"

\* C28: at every return of aptx_decode_sync with decode_dropped > 0 the
\* codeword pairs still skipped and those counted since the failure are 23
\* together, decode_skip_leading + decode_sync_packets = 23; a call that was
\* entered with decode_dropped > 0 and reports no dropped bytes writes no
\* PCM; and when a call reports dropped bytes and leaves decode_dropped = 0,
\* decode_skip_leading is 0 as well.
C28_SkipAndPacketsMoveTogether ==
    call.op = "decode_sync" =>
        /\ context.decode_dropped > 0 =>
               context.decode_skip_leading + context.decode_sync_packets = FlushFrames
        /\ (call.entry.decode_dropped > 0 /\ call.dropped = 0) => call.written = 0
        /\ (call.dropped > 0 /\ context.decode_dropped = 0) =>
               context.decode_skip_leading = 0

\* a return in the middle of the 23 codeword pairs after the failure
C28_Witness ==
    /\ call.op = "decode_sync"
    /\ call.kind = "injected96"
    /\ call.entry.decode_dropped > 0
    /\ context.decode_dropped > call.entry.decode_dropped
    /\ context.decode_sync_packets > call.entry.decode_sync_packets
    /\ context.decode_sync_packets \in 2 .. FlushFrames - 2
    /\ context.decode_skip_leading = FlushFrames - context.decode_sync_packets
    /\ call.written = 0

(***************************************************************************)
(* The table accesses of one channel: a codeword of any content unpacked   *)
(* and inverted, and sample differences quantized, with factor_select at   *)
(* any place of its range.                                                 *)
(***************************************************************************)
\* codewords: no bit set, every bit set, every field at its least and at its
\* greatest value, and the alternating bits
TableCodewords(hd) ==
    IF hd # 0
    THEN {0, Pow2(24) - 1,
          Pow2(8) + Pow2(14) + Pow2(18) + Pow2(23),
          Pow2(24) - 1 - (Pow2(8) + Pow2(14) + Pow2(18) + Pow2(23)),
          (Pow2(24) - 1) \div 3, 2 * ((Pow2(24) - 1) \div 3)}
    ELSE {0, Pow2(16) - 1,
          Pow2(6) + Pow2(10) + Pow2(12) + Pow2(15),
          Pow2(16) - 1 - (Pow2(6) + Pow2(10) + Pow2(12) + Pow2(15)),
          (Pow2(16) - 1) \div 3, 2 * ((Pow2(16) - 1) \div 3)}

\* places of factor_select in 0 .. factor_max
TableLevels == {"least", "one", "low", "middle", "below", "greatest"}

TableLevel(level, factor_max) ==
    CASE level = "least" -> 0
      [] level = "one" -> 1
      [] level = "low" -> 255
      [] level = "middle" -> factor_max \div 2
      [] level = "below" -> factor_max - 1
      [] level = "greatest" -> factor_max

\* sample differences, as clip_intp2(.., 23) leaves them
TableDifferences == {-Pow2(23), -Pow2(19), -1, 0, 1, 4660, Pow2(23) - 1}

\* values of a dither, an int32_t
TableDithers == {-Pow2(30) - Pow2(30), -Pow2(24), 0, Pow2(30) - 1 + Pow2(30)}

\* a channel after aptx_reset, or with factor_select at a level and the
\* quantization_factor that belongs to it
TableChannel(hd, level) ==
    IF level = "reset" THEN aptx_init(hd, zero_context).channels[LEFT]
    ELSE [aptx_init(hd, zero_context).channels[LEFT] EXCEPT
            !.invert_quantize = Tuple([subband \in 1 .. NB_SUBBANDS |->
                [@[subband] EXCEPT
                   !.factor_select =
                       TableLevel(level, tables_of(hd, subband - 1).factor_max),
                   !.quantization_factor =
                       quantization_factor_update(
                           TableLevel(level, tables_of(hd, subband - 1).factor_max),
                           tables_of(hd, subband - 1))]])]

TableInit ==
    \E hd \in {0, 1} : \E level \in TableLevels \cup {"reset"} :
    \E codeword \in TableCodewords(hd) :
    \E sample_difference \in TableDifferences : \E dither \in TableDithers :
        /\ context = [aptx_init(hd, zero_context) EXCEPT
                        !.channels[LEFT] = TableChannel(hd, level)]
        /\ mode = "tables"
        /\ stream = NoStream
        /\ call = [op |-> "init", codeword |-> codeword,
                   sample_difference |-> sample_difference, dither |-> dither,
                   idx |-> <<>>, entry |-> context]

\* the codeword unpacked into LEFT and inverted, as aptx_decode_samples does
\* it; idx are the indices that aptx_invert_quantization takes
UnpackInvert ==
    /\ mode = "tables"
    /\ call.op = "init"
    /\ \E channel \in {IF context.hd # 0
                       THEN aptxhd_unpack_codeword(context.channels[LEFT], call.codeword)
                       ELSE aptx_unpack_codeword(context.channels[LEFT], call.codeword)} :
           /\ call' = [call EXCEPT
                         !.op = "invert",
                         !.idx = Tuple([subband \in 1 .. NB_SUBBANDS |->
                                    invert_quantization_index(
                                        channel.quantize[subband].quantized_sample)])]
           /\ context' = [context EXCEPT !.channels[LEFT] =
                             aptx_invert_quantize_and_prediction(channel, context.hd)]
    /\ UNCHANGED <<mode, stream>>

\* aptx_quantize_difference of the four sub-bands of LEFT, as
\* aptx_encode_channel calls it; idx are the results of aptx_bin_search
QuantizeChannel ==
    /\ mode = "tables"
    /\ call.op = "init"
    /\ call' = [call EXCEPT
                  !.op = "quantize",
                  !.idx = Tuple([subband \in 1 .. NB_SUBBANDS |->
                             aptx_bin_search(
                                 clip(IF call.sample_difference < 0
                                      THEN -call.sample_difference
                                      ELSE call.sample_difference, 0, Pow2(23) - 1) \div 16,
                                 context.channels[LEFT].invert_quantize[subband].quantization_factor,
                                 tables_of(context.hd, subband - 1).quantize_intervals,
                                 tables_of(context.hd, subband - 1).tables_size)])]
    /\ context' = [context EXCEPT !.channels[LEFT].quantize =
                      Tuple([subband \in 1 .. NB_SUBBANDS |->
                          aptx_quantize_difference(
                              call.sample_difference, call.dither,
                              context.channels[LEFT].invert_quantize[subband].quantization_factor,
                              tables_of(context.hd, subband - 1))])]
    /\ UNCHANGED <<mode, stream>>

NextTable == UnpackInvert \/ QuantizeChannel

TableSpec == TableInit /\ [][NextTable]_vars

\* the entry i of C exists in the array
InArray(i, array) == i + 1 \in DOMAIN array

\* C29: every table access is in bounds.  In the decoder the index taken
\* from a quantized sample of any codeword is in 1 .. tables_size - 1 and
\* names an entry of quantize_intervals, invert_quantize_dither_factors and
\* quantize_factor_select_offset; in the encoder aptx_bin_search returns an
\* index in 0 .. tables_size - 2, so that intervals[idx + 1] and
\* quantize_dither_factors[idx] exist; factor_select stays in
\* 0 .. factor_max, the index of quantization_factors in 0 .. 31 and the
\* shift in 0 .. 22.
C29_TableAccessesInBounds ==
    \A subband \in 1 .. NB_SUBBANDS :
      \E tables \in {tables_of(context.hd, subband - 1)} :
        /\ call.op = "invert" =>
             /\ call.idx[subband] \in 1 .. tables.tables_size - 1
             /\ InArray(call.idx[subband], tables.quantize_intervals)
             /\ InArray(call.idx[subband], tables.invert_quantize_dither_factors)
             /\ InArray(call.idx[subband], tables.quantize_factor_select_offset)
             /\ \E factor_select \in
                    {context.channels[LEFT].invert_quantize[subband].factor_select} :
                  /\ factor_select \in 0 .. tables.factor_max
                  /\ quantization_factor_index(factor_select) \in 0 .. 31
                  /\ InArray(quantization_factor_index(factor_select),
                             quantization_factors)
                  /\ quantization_factor_shift(factor_select, tables) \in 0 .. 22
        /\ call.op = "quantize" =>
             /\ call.idx[subband] \in 0 .. tables.tables_size - 2
             /\ InArray(call.idx[subband], tables.quantize_intervals)
             /\ InArray(call.idx[subband] + 1, tables.quantize_intervals)
             /\ InArray(call.idx[subband], tables.quantize_dither_factors)

\* the codeword with every field at its least value, inverted with
\* factor_select at the top of its range: the index of the first sub-band is
\* tables_size - 1 and factor_select is clipped to factor_max
C29_Witness ==
    /\ call.op = "invert"
    /\ call.idx[1] = tables_of(context.hd, 0).tables_size - 1
    /\ call.entry.channels[LEFT].invert_quantize[1].factor_select
           = tables_of(context.hd, 0).factor_max - 1
    /\ context.channels[LEFT].invert_quantize[1].factor_select
           = tables_of(context.hd, 0).factor_max
    /\ context.hd = 1

(***************************************************************************)
(* aptx_quantize_difference on sample differences, dithers and             *)
(* quantization factors of any size.                                       *)
(***************************************************************************)
\* sample differences: the ends of 24 bits, values about zero, and values
\* that the function clips
QuantDifferences ==
    {1 - Pow2(30) - Pow2(30), -Pow2(23) - 1, -Pow2(23), 1 - Pow2(23), -Pow2(19),
     -4660, -16, -1, 0, 1, 15, 16, 4660, Pow2(19), Pow2(23) - 1, Pow2(23),
     Pow2(30) - 1 + Pow2(30)}

\* quantization factors: 0 as after aptx_reset, the least and the greatest
\* that aptx_invert_quantization leaves, and the greatest int32_t
QuantFactors ==
    {0, 1, 256, quantization_factors_at(0) * Pow2(11),
     quantization_factors_at(31) * Pow2(11), Pow2(30) - 1 + Pow2(30)}

QuantInit ==
    \E hd \in {0, 1} : \E subband \in 1 .. NB_SUBBANDS :
    \E sample_difference \in QuantDifferences : \E dither \in TableDithers :
    \E quantization_factor \in QuantFactors :
        /\ context = aptx_init(hd, zero_context)
        /\ mode = "quantize"
        /\ stream = NoStream
        /\ call = [op |-> "init", subband |-> subband,
                   sample_difference |-> sample_difference, dither |-> dither,
                   quantization_factor |-> quantization_factor]

\* aptx_quantize_difference(&channel->quantize[subband], ..) of LEFT
QuantizeDifference ==
    /\ mode = "quantize"
    /\ call.op = "init"
    /\ context' = [context EXCEPT !.channels[LEFT].quantize[call.subband] =
                      aptx_quantize_difference(
                          call.sample_difference, call.dither, call.quantization_factor,
                          tables_of(context.hd, call.subband - 1))]
    /\ call' = [call EXCEPT !.op = "quantize_difference"]
    /\ UNCHANGED <<mode, stream>>

NextQuant == QuantizeDifference

QuantSpec == QuantInit /\ [][NextQuant]_vars

\* the struct aptx_quantize that the call has filled
Quantized == context.channels[LEFT].quantize[call.subband]

\* C30: quantized_sample and quantized_sample_parity_change that
\* aptx_quantize_difference produces both lie in
\* -(tables_size - 1) .. tables_size - 2, which is the signed range
\* -2^(bits-1) .. 2^(bits-1) - 1 of the sub-band's codeword field, and one of
\* the two is odd and the other even.
C30_QuantizedInFieldRange ==
    call.op = "quantize_difference" =>
        \E tables_size \in {tables_of(context.hd, call.subband - 1).tables_size},
           bits \in {FieldBits(context.hd)[call.subband]} :
            /\ -(tables_size - 1) = -Pow2(bits - 1)
            /\ tables_size - 2 = Pow2(bits - 1) - 1
            /\ Quantized.quantized_sample \in -(tables_size - 1) .. tables_size - 2
            /\ Quantized.quantized_sample_parity_change
                   \in -(tables_size - 1) .. tables_size - 2
            /\ sign_extend(Quantized.quantized_sample, bits)
                   = Quantized.quantized_sample
            /\ sign_extend(Quantized.quantized_sample_parity_change, bits)
                   = Quantized.quantized_sample_parity_change
            /\ Quantized.quantized_sample % 2
                   # Quantized.quantized_sample_parity_change % 2

\* a negative difference beyond the last interval: the least value of the
\* field, -256 in the first sub-band of aptX HD
C30_Witness ==
    /\ call.op = "quantize_difference"
    /\ context.hd = 1
    /\ call.subband = 1
    /\ call.sample_difference < 0
    /\ -256 \in {Quantized.quantized_sample, Quantized.quantized_sample_parity_change}

=============================================================================
